---- MODULE Spec2Model ----
(***************************************************************************)
(* Four tutorial HTTP services backed by flat JSON files: the student      *)
(* portal (task 1), the shopping cart (task 2), the job application        *)
(* tracker (task 3) and the notes API (task 4).  Each service is its own   *)
(* process with its own files; a behaviour of this module is a run of one  *)
(* of them (variable service).                                             *)
(*                                                                         *)
(* The handlers are plain def functions, which the server runs on worker   *)
(* threads, and no handler takes a lock.  A step of the model is one       *)
(* access of one request to the file system, with the computation that     *)
(* leads up to it or follows it:                                           *)
(*   - the dependency of a protected handler (the token check with its     *)
(*     read of users.json),                                                *)
(*   - each read of a file by the handler body (json.load reads the whole  *)
(*     file in one call),                                                  *)
(*   - each open(file, 'w'), which truncates the file to zero bytes,       *)
(*   - each close of a file opened for writing, with the return of the     *)
(*     handler when it was its last file.  The documents of the model are  *)
(*     smaller than the 8 KiB buffer of a text file, so json.dump leaves   *)
(*     them in the buffer and the close writes them in one piece at        *)
(*     offset 0.                                                           *)
(* os.path.exists and the open for reading that follows it are one step    *)
(* (no handler removes a file), and so are the read of the clock and the   *)
(* read of the file next to it.  read_json of the student portal writes    *)
(* the default to a students.json it finds missing: its test for the file, *)
(* its open of the file for writing and its close are three steps.         *)
(***************************************************************************)
EXTENDS Integers, Sequences, FiniteSets, TLC

(***************************************************************************)
(* Bounds of the model.                                                    *)
(***************************************************************************)
\* how often the clock advances (by one token lifetime each time)
MaxTicks == 2
\* most records a store (all notes, all applications, all products, all
\* cart items) may hold for a request still to append one
MaxRecords == 2
\* most user records a register request may still append to
MaxUsers == 4

(***************************************************************************)
(* Program constants.                                                      *)
(***************************************************************************)
ACCESS_TOKEN_EXPIRE_MINUTES == 30
MinutesPerDay == 24 * 60

HTTP_200 == 200
HTTP_201 == 201
HTTP_400 == 400
HTTP_401 == 401
HTTP_403 == 403
HTTP_404 == 404
HTTP_409 == 409
HTTP_422 == 422
HTTP_500 == 500

\* the clock advances in steps of one token lifetime
TickStep == ACCESS_TOKEN_EXPIRE_MINUTES
MaxClock == MaxTicks * TickStep

(***************************************************************************)
(* Generic helpers: Python dict and list operations.                       *)
(***************************************************************************)
Range(s) == {s[i] : i \in 1..Len(s)}

\* d[k] = v on a dict: the key is added when absent
Put(d, k, v) == [x \in (DOMAIN d) \cup {k} |-> IF x = k THEN v ELSE d[x]]

\* del d[k]
Without(d, k) == [x \in (DOMAIN d) \ {k} |-> d[x]]

\* d.get(k, set())
GetOrEmptySet(d, k) == IF k \in DOMAIN d THEN d[k] ELSE {}

\* d.get(k, [])
GetOrEmpty(d, k) == IF k \in DOMAIN d THEN d[k] ELSE <<>>

\* the least index of a set of indexes, 0 when it is empty: the element a
\* "for x in s: if hit(x): ...; break" loop or next(...) stops at
FirstOf(indexes) ==
    IF indexes = {} THEN 0
    ELSE CHOOSE i \in indexes : \A j \in indexes : i <= j

\* the index of the first record of s whose id is id, 0 when there is none
IndexOfId(s, id) == FirstOf({i \in 1..Len(s) : s[i].id = id})

EmptyDict == [x \in {} |-> <<>>]

\* the number of records in the lists of a dict
RECURSIVE CountIn(_, _)
CountIn(d, keys) ==
    IF keys = {} THEN 0
    ELSE LET k == CHOOSE x \in keys : TRUE
         IN  Len(d[k]) + CountIn(d, keys \ {k})
Count(d) == CountIn(d, DOMAIN d)

(***************************************************************************)
(* Passwords and hashes.  A plaintext password is the one-element sequence *)
(* of its text; a bcrypt hash is the sequence identifier, salt, digest     *)
(* input, so that a hash and a plaintext are comparable values.            *)
(***************************************************************************)
BcryptIdent == "$2b$12$"
DefaultSalt == "EixZaYVK1fsbw1ZfbX3OXe"
Salts == {DefaultSalt, "N9qo8uLOickgx2ZMRZoMye"}

Plain(text) == <<text>>
Passwords == {Plain("secret"), Plain("secret123")}

get_password_hash(password, salt) == <<BcryptIdent, salt>> \o password

\* a verification that accepts every password
verify_password_any(plain_password, hashed_password) == TRUE
verify_password(plain_password, hashed_password) ==
    /\ Len(hashed_password) > 2
    /\ hashed_password[1] = BcryptIdent
    /\ SubSeq(hashed_password, 3, Len(hashed_password)) = plain_password

\* the hash the default users of every service are created with
DefaultHash == <<BcryptIdent, DefaultSalt, "secret">>

(***************************************************************************)
(* Time.  The clock counts minutes; strftime keeps what its format names.  *)
(***************************************************************************)
\* datetime.now().strftime("%Y-%m-%d %H:%M:%S")
FormatDateTime(t) == <<t \div MinutesPerDay, t % MinutesPerDay>>
\* datetime.now().strftime("%Y-%m-%d")
FormatDate(t) == <<t \div MinutesPerDay>>

(***************************************************************************)
(* Tokens.  A JWT is its claims and the key it was signed with.            *)
(***************************************************************************)
NoSub == ""
NoToken == [sub |-> NoSub, exp |-> 0, key |-> "none"]
ForgedKey == "attacker-key"
JOBS_SECRET_KEY == "job-tracker-secret-key-change-in-production"
CART_SECRET_KEY == "your-secret-key-here-change-in-production"
NOTES_SECRET_KEY == "notes-secret-key"

create_access_token(sub, key, now) ==
    [sub |-> sub, exp |-> now + ACCESS_TOKEN_EXPIRE_MINUTES, key |-> key]

\* a decode that does not look at the expiry (options verify_exp off)
jwt_decode_noexp(token, key, now) == token.key = key
\* jwt.decode: the signature verifies and the expiry has not passed
jwt_decode_ok(token, key, now) == token.key = key /\ ~(token.exp < now)

(***************************************************************************)
(* State: the JSON files of the running service, the clock, the token the  *)
(* client holds, and the response of the last step.                        *)
(***************************************************************************)
VARIABLES
    service,            \* which of the four applications this run is
    clock,              \* minutes since the service started
    session,            \* the bearer token the client holds (NoToken: none)
    resp,               \* the response the last step sent (NoResponse: the
                        \* step answered no request)
    students_json,      \* task 1: students.json, username -> student record
    cart_users_json,    \* task 2: users.json, a list of user records
    products_json,      \* task 2: products.json, a list of products
    cart_json,          \* task 2: cart.json, username -> list of cart items
    jobs_users_json,    \* task 3: users.json, a list of user records
    applications_json,  \* task 3: applications.json, username -> list
    notes_users_json,   \* task 4: users.json, a list of user records
    notes_data,         \* task 4: notes_data/<username>_notes.json, per file
    registered,         \* history: username -> the password it registered with
    issued_to,          \* history: the username whose login issued session
    assigned_ids,       \* history: notes file -> the ids add_note gave out
    unreadable,         \* the files that exist and hold no JSON document:
                        \* json.load raises JSONDecodeError on them
    torn,               \* unreadable file -> the number of bytes it holds; an
                        \* unreadable file not in the domain holds none (it
                        \* was truncated by open(file, 'w'))
    absent,             \* the files of fixed name that do not exist
    inflight,           \* the requests being handled: request -> what its
                        \* handler holds
    overwritten,        \* history: the write of another request that the
                        \* last write found made since its load, and replaced
    spare               \* the requests that may still be served while another
                        \* is in flight

vars == <<service, clock, session, resp, students_json, cart_users_json,
          products_json, cart_json, jobs_users_json, applications_json,
          notes_users_json, notes_data, registered, issued_to, assigned_ids,
          unreadable, torn, absent, inflight, overwritten, spare>>

portalVars == <<students_json>>
cartVars == <<cart_users_json, products_json, cart_json>>
jobsVars == <<jobs_users_json, applications_json>>
notesVars == <<notes_users_json, notes_data>>
\* the documents of the files
Files == <<students_json, cartVars, jobsVars, notesVars>>
\* what the file system knows of the files beside their documents
diskVars == <<unreadable, torn, absent>>
histVars == <<registered, issued_to, assigned_ids>>
raceVars == <<overwritten, spare>>

(***************************************************************************)
(* Responses.  body is the list of records a response carries, token the   *)
(* access token of a login response, caller the username the request was   *)
(* authenticated as, id the record id the request named (0: none), sent    *)
(* the payload of a request that creates or changes a record.              *)
(***************************************************************************)
NoCaller == ""
Response(op, caller, id, status, detail, body, token) ==
    [op |-> op, caller |-> caller, id |-> id, status |-> status,
     detail |-> detail, body |-> body, token |-> token, sent |-> <<>>]
\* the response r to a request whose payload was sent
Sent(r, payload) == [r EXCEPT !.sent = <<payload>>]
NoResponse == Response("none", NoCaller, 0, 0, "", <<>>, NoToken)

\* an exception no handler of the application catches
InternalServerError(op, username) ==
    Response(op, username, 0, HTTP_500, "Internal Server Error", <<>>, NoToken)

(***************************************************************************)
(* The files, as path components.                                          *)
(***************************************************************************)
PRODUCTS_FILE == <<"products.json">>
CART_FILE == <<"cart.json">>
APPLICATIONS_FILE == <<"applications.json">>
STUDENTS_FILE == <<"students.json">>
USERS_FILE == <<"users.json">>
NOTES_DIR == "notes_data"

\* one file for every user
user_notes_file_shared(username) == <<NOTES_DIR, "shared", "_notes.json">>
\* os.path.join(NOTES_DIR, f"{current_user.username}_notes.json")
user_notes_file(username) == <<NOTES_DIR, username, "_notes.json">>

\* the file is the notes file of a user
IsNotesFile(file) == file # <<>> /\ file[1] = NOTES_DIR

\* the notes in a file; a missing file reads as no notes
NotesOf(file) == GetOrEmpty(notes_data, file)

\* the credential store of the running service (the student portal keeps
\* its users in students.json)
UsersFile ==
    CASE service = "jobs" -> jobs_users_json
      [] service = "notes" -> notes_users_json
      [] service = "cart" -> cart_users_json
      [] OTHER -> <<>>

\* the document of a file.  While the file is unreadable this is the
\* document it held before, which no handler can read: every read tests
\* unreadable first
Content(file) ==
    CASE file = STUDENTS_FILE -> students_json
      [] file = PRODUCTS_FILE -> products_json
      [] file = CART_FILE -> cart_json
      [] file = APPLICATIONS_FILE -> applications_json
      [] file = USERS_FILE -> UsersFile
      [] OTHER -> NotesOf(file)

\* the empty document of the kind the file holds
EmptyOf(file) ==
    IF file \in {STUDENTS_FILE, CART_FILE, APPLICATIONS_FILE} THEN EmptyDict
    ELSE <<>>

\* os.path.exists(file): a notes file exists once it was opened for writing
notes_file_exists(file) == file \in DOMAIN notes_data \/ file \in unreadable
Exists(file) ==
    IF IsNotesFile(file) THEN notes_file_exists(file) ELSE file \notin absent

(***************************************************************************)
(* The size of a document as json.dump(..., indent=2) writes it.  Two      *)
(* requests that have the same file open for writing both write at offset  *)
(* 0: the shorter document written last leaves the tail of the longer one  *)
(* behind it.                                                              *)
(***************************************************************************)
RECURSIVE SumOver(_, _)
SumOver(sizes, keys) ==
    IF keys = {} THEN 0
    ELSE LET k == CHOOSE x \in keys : TRUE
         IN  sizes[k] + SumOver(sizes, keys \ {k})

\* the decimal digits of a natural number
RECURSIVE Digits(_)
Digits(n) == IF n < 10 THEN 1 ELSE 1 + Digits(n \div 10)

\* a str between its quotes (the texts of the model need no escapes)
StrBytes(text) == Len(text) + 2
\* repr of the float cents / 100: at least one decimal, no trailing zero
FloatBytes(cents) ==
    Digits(cents \div 100) + 1 + (IF cents % 10 = 0 THEN 1 ELSE 2)
\* a bcrypt hash: identifier, 22 characters of salt, 31 of digest
HashBytes == StrBytes(BcryptIdent) + Len(DefaultSalt) + 31
\* "%Y-%m-%d %H:%M:%S" and "%Y-%m-%d" between quotes
DateTimeBytes == StrBytes("2024-01-01 10:00:00")
DateBytes == StrBytes("2024-01-01")

\* a dict whose closing brace is indented by indent; sizes maps each key to
\* the bytes of its value: "{\n", the members each on a line of its own
\* behind indent + 2 blanks as "key": value, ",\n" between them, "\n" and
\* the indented "}"
ObjectBytes(sizes, indent) ==
    IF DOMAIN sizes = {} THEN 2
    ELSE 2 + SumOver([k \in DOMAIN sizes |->
                          indent + 2 + StrBytes(k) + 2 + sizes[k]],
                     DOMAIN sizes)
           + 2 * (Cardinality(DOMAIN sizes) - 1) + 2 + indent

\* a list whose closing bracket is indented by indent; sizes is the
\* sequence of the bytes of its elements
ArrayBytes(sizes, indent) ==
    IF sizes = <<>> THEN 2
    ELSE 2 + SumOver([k \in 1..Len(sizes) |-> indent + 2 + sizes[k]],
                     1..Len(sizes))
           + 2 * (Len(sizes) - 1) + 2 + indent

\* notes: Optional[str] = None of JobApplication: None when the client left
\* the notes out, which json.dump writes as null, and otherwise the text
None == <<>>
Some(text) == <<text>>
NullBytes == Len("null")
OptionalStrBytes(value) == IF value = None THEN NullBytes ELSE StrBytes(value[1])

\* the bytes of the value of a field of a record: the id, quantity and
\* stock are ints, price and total floats, the notes of an application a
\* string or null, the rest strings
FieldBytes(field, value) ==
    CASE field \in {"id", "product_id", "quantity", "stock"} -> Digits(value)
      [] field \in {"price", "total"} -> FloatBytes(value)
      [] field \in {"hashed_password", "password_hash"} -> HashBytes
      [] field \in {"date_created", "date_updated"} -> DateTimeBytes
      [] field = "date_applied" -> DateBytes
      [] field = "grades" -> ArrayBytes(<<>>, 0)
      [] field = "notes" -> OptionalStrBytes(value)
      [] OTHER -> StrBytes(value)

\* a record of a list or dict, its closing brace indented by indent
RecordBytes(record, indent) ==
    ObjectBytes([field \in DOMAIN record |-> FieldBytes(field, record[field])],
                indent)

\* a file that is a list of records: users.json, products.json, a notes file
ListFileBytes(records) ==
    ArrayBytes([k \in 1..Len(records) |-> RecordBytes(records[k], 2)], 0)

\* a file that is a dict of lists of records: applications.json, cart.json
DictOfListsBytes(lists) ==
    ObjectBytes([key \in DOMAIN lists |->
                    ArrayBytes([k \in 1..Len(lists[key]) |->
                                   RecordBytes(lists[key][k], 4)], 2)], 0)

\* students.json: a dict of records
DictOfRecordsBytes(records) ==
    ObjectBytes([key \in DOMAIN records |-> RecordBytes(records[key], 2)], 0)

\* the bytes of the document data of file
DocBytes(file, data) ==
    CASE file = STUDENTS_FILE -> DictOfRecordsBytes(data)
      [] file \in {CART_FILE, APPLICATIONS_FILE} -> DictOfListsBytes(data)
      [] OTHER -> ListFileBytes(data)

\* the bytes file holds
BytesOnDisk(file) ==
    IF file \in DOMAIN torn THEN torn[file]
    ELSE IF file \in unreadable \/ ~Exists(file) THEN 0
    ELSE DocBytes(file, Content(file))

(***************************************************************************)
(* Writing a file.                                                         *)
(***************************************************************************)
\* the document of file becomes data, every other document stays
Stores(file, data) ==
    /\ students_json' = IF file = STUDENTS_FILE THEN data ELSE students_json
    /\ products_json' = IF file = PRODUCTS_FILE THEN data ELSE products_json
    /\ cart_json' = IF file = CART_FILE THEN data ELSE cart_json
    /\ applications_json' =
           IF file = APPLICATIONS_FILE THEN data ELSE applications_json
    /\ cart_users_json' = cart_users_json
    /\ jobs_users_json' =
           IF file = USERS_FILE /\ service = "jobs" THEN data ELSE jobs_users_json
    /\ notes_users_json' =
           IF file = USERS_FILE /\ service = "notes" THEN data
           ELSE notes_users_json
    /\ notes_data' =
           IF IsNotesFile(file) THEN Put(notes_data, file, data) ELSE notes_data

\* open(file, 'w'): the file exists and holds no byte
Truncated(file) ==
    /\ unreadable' = unreadable \cup {file}
    /\ torn' = Without(torn, file)
    /\ absent' = absent \ {file}
    /\ UNCHANGED Files

\* the close of file, opened for writing, after json.dump(data, f): the
\* bytes of data are written at offset 0.  When the file holds more bytes by
\* then (another request that had it open wrote a longer document) their
\* tail stays behind the document, and json.load cannot parse the file
Flushed(file, data) ==
    LET before == BytesOnDisk(file)
        whole == DocBytes(file, data) >= before
    IN  /\ unreadable' = IF whole THEN unreadable \ {file}
                         ELSE unreadable \cup {file}
        /\ torn' = IF whole THEN Without(torn, file) ELSE Put(torn, file, before)
        /\ absent' = absent \ {file}
        /\ Stores(file, IF whole THEN data ELSE EmptyOf(file))

(***************************************************************************)
(* Requests in flight.  inflight[request] is what the handler of a request *)
(* holds: how far it has come (stage), the user it was authenticated as,   *)
(* the file it has loaded or is writing, the content it loaded, the        *)
(* content it is about to dump (data), the record it made or changed       *)
(* (created), the id in its path or body (id; 0: none) and its payload     *)
(* (sent).  passed, the first write of another request to the file it      *)
(* holds since it loaded (<<>>: none), is history.                         *)
(***************************************************************************)
MaxRequests == 2
\* the requests that may be served, in one run, while another is in flight
MaxOverlaps == 1
\* the same in the runs of racing clients: one logs in while the request of
\* the other is in flight, and then sends its own
MaxRaceOverlaps == 2
Requests == 1..MaxRequests
\* a request can be served
Room == DOMAIN inflight = {} \/ spare > 0
\* a request is taken by the first free worker
Arrives(request) ==
    /\ Room
    /\ request \notin DOMAIN inflight
    /\ \A other \in Requests : other < request => other \in DOMAIN inflight
\* a request is served
Counted ==
    /\ spare' = IF DOMAIN inflight = {} THEN spare ELSE spare - 1
    /\ overwritten' = <<>>
\* a request is answered in the step in which it arrives
Answers == Room /\ Counted /\ UNCHANGED inflight

\* what the handler holds when its dependency has resolved the caller
Validated(handler, username) ==
    [handler |-> handler, stage |-> "validated", username |-> username,
     id |-> 0, file |-> <<>>, loaded |-> <<>>, data |-> <<>>,
     created |-> <<>>, sent |-> <<>>, passed |-> <<>>]

\* what the handler holds when it has loaded file and made data of it
Loaded(held, id, file, loaded, data, created, payload) ==
    [held EXCEPT !.stage = "loaded", !.id = id, !.file = file,
                 !.loaded = loaded, !.data = data, !.created = created,
                 !.sent = payload]

\* a request arrives and is not answered in the step
Admit(request, held) ==
    /\ Counted
    /\ inflight' = Put(inflight, request, held)
    /\ resp' = NoResponse

\* the handler of request is at stage
Staged(request, handler, stage) ==
    /\ request \in DOMAIN inflight
    /\ inflight[request].handler = handler
    /\ inflight[request].stage = stage

\* the request goes on without an answer
Proceeds(request, held) ==
    /\ inflight' = [inflight EXCEPT ![request] = held]
    /\ UNCHANGED spare
    /\ overwritten' = <<>>
    /\ resp' = NoResponse

\* the request is answered by a handler that has opened no file for writing
Leaves(request, response) ==
    /\ inflight' = Without(inflight, request)
    /\ UNCHANGED spare
    /\ overwritten' = <<>>
    /\ resp' = response

\* what the write of a request is to the requests it passes
WriteOf(held) ==
    [handler |-> held.handler, username |-> held.username, file |-> held.file,
     loaded |-> held.loaded, created |-> held.created, sent |-> held.sent]

\* the requests in flight after request wrote its file: every other request
\* that holds that file has been passed by the write; the first write that
\* passed a request is kept
PassedBy(request) ==
    [other \in DOMAIN inflight |->
        IF /\ other # request
           /\ inflight[other].file = inflight[request].file
           /\ inflight[other].passed = <<>>
        THEN [inflight[other] EXCEPT !.passed = <<WriteOf(inflight[request])>>]
        ELSE inflight[other]]

\* request writes the file it holds: the writes that passed it are replaced
Writes(request) ==
    /\ overwritten' = inflight[request].passed
    /\ UNCHANGED spare

\* request writes the file it holds and returns
Returns(request) ==
    /\ Writes(request)
    /\ inflight' = Without(PassedBy(request), request)

\* open(file, 'w') of the file the handler of request holds
Opens(request) ==
    /\ Truncated(inflight[request].file)
    /\ Proceeds(request, [inflight[request] EXCEPT !.stage = "open"])
    /\ UNCHANGED <<service, clock, session, histVars>>

(***************************************************************************)
(* Credential stores after initialize_files.                               *)
(***************************************************************************)
JobsDefaultUsers ==
    << [username |-> "john_doe", email |-> "john@example.com",
        hashed_password |-> DefaultHash, full_name |-> "John Doe"],
       [username |-> "jane_smith", email |-> "jane@example.com",
        hashed_password |-> DefaultHash, full_name |-> "Jane Smith"] >>

NotesDefaultUsers ==
    << [username |-> "alice", email |-> "alice@example.com",
        hashed_password |-> DefaultHash, full_name |-> "Alice Johnson"],
       [username |-> "bob", email |-> "bob@example.com",
        hashed_password |-> DefaultHash, full_name |-> "Bob Smith"] >>

CartDefaultUsers ==
    << [username |-> "admin", email |-> "admin@shop.com",
        hashed_password |-> DefaultHash, role |-> "admin"],
       [username |-> "customer1", email |-> "customer1@shop.com",
        hashed_password |-> DefaultHash, role |-> "customer"] >>

(***************************************************************************)
(* auth.py: user lookup, password check, token validation.                 *)
(***************************************************************************)
\* None of get_user and False of authenticate_user
NoUser == [username |-> NoSub]

\* a lookup that returns the first record of the file whatever the username
get_user_first(users_data, username) ==
    IF Len(users_data) > 0 THEN users_data[1] ELSE NoUser
get_user(users_data, username) ==
    LET i == FirstOf({k \in 1..Len(users_data) : users_data[k].username = username})
    IN  IF i = 0 THEN NoUser ELSE users_data[i]

authenticate_user(users_data, username, password) ==
    LET user == get_user(users_data, username)
    IN  IF user = NoUser THEN NoUser
        ELSE IF ~verify_password(password, user.hashed_password) THEN NoUser
        ELSE user

\* a validation that skips the expiry and signature check
get_current_user_nocheck(users_data, key, token, now) ==
    get_user(users_data, token.sub)
get_current_user(users_data, key, token, now) ==
    IF ~jwt_decode_ok(token, key, now) THEN NoUser
    ELSE IF token.sub = NoSub THEN NoUser
    ELSE get_user(users_data, token.sub)

jobs_get_current_user(token) ==
    get_current_user(jobs_users_json, JOBS_SECRET_KEY, token, clock)
cart_get_current_user(token) ==
    get_current_user(cart_users_json, CART_SECRET_KEY, token, clock)
\* task 4 imports get_current_user from an auth module of its own
notes_get_current_user(token) ==
    get_current_user(notes_users_json, NOTES_SECRET_KEY, token, clock)

\* SECRET_KEY of the running service
SecretKey ==
    CASE service = "jobs" -> JOBS_SECRET_KEY
      [] service = "notes" -> NOTES_SECRET_KEY
      [] OTHER -> CART_SECRET_KEY

\* a username no record has
UnknownName == "mallory"

\* what the client can put into the Authorization header: the token it
\* holds, or a token it signed itself for a name it knows
ForgedTokens(names) ==
    {[sub |-> n, exp |-> clock + ACCESS_TOKEN_EXPIRE_MINUTES, key |-> ForgedKey] :
        n \in names}
\* tokens with the service's signature that jwt.decode or the lookup refuses:
\* expired ones, one without "sub", one whose "sub" no record has
ExpiredTokens(names) ==
    {[sub |-> n, exp |-> clock - 1, key |-> SecretKey] : n \in names}
TokenWithoutSub ==
    [sub |-> NoSub, exp |-> clock + ACCESS_TOKEN_EXPIRE_MINUTES, key |-> SecretKey]
TokenOfUnknownUser ==
    [sub |-> UnknownName, exp |-> clock + ACCESS_TOKEN_EXPIRE_MINUTES,
     key |-> SecretKey]
Usernames(users_data) == {users_data[i].username : i \in 1..Len(users_data)}
\* every token get_current_user has to refuse
RefusedTokens(users_data) ==
    {TokenWithoutSub, TokenOfUnknownUser}
        \cup ForgedTokens(Usernames(users_data))
        \cup ExpiredTokens(Usernames(users_data))
Presented(users_data) == {session} \cup ForgedTokens(Usernames(users_data))
\* the token the client holds, no token, or any token that has to be refused
AnyToken(users_data) == {session, NoToken} \cup RefusedTokens(users_data)

JobsUnauthenticated(op) ==
    Response(op, NoCaller, 0, HTTP_401,
             "Could not validate credentials. Please login again.", <<>>, NoToken)
CartUnauthenticated(op) ==
    Response(op, NoCaller, 0, HTTP_401, "Could not validate credentials", <<>>, NoToken)
NotesUnauthenticated(op) ==
    Response(op, NoCaller, 0, HTTP_401, "Could not validate credentials", <<>>, NoToken)

\* security = HTTPBearer(): a request without an Authorization header is
\* answered before get_current_user runs, with 403 by FastAPI up to 0.121 and
\* with 401 by the releases since
NotAuthenticated(op) ==
    {Response(op, NoCaller, 0, status, "Not authenticated", <<>>, NoToken) :
        status \in {HTTP_401, HTTP_403}}
\* the answers to a request that resolves to no user: HTTPBearer's without a
\* token, the credentials_exception of get_current_user with one
Refusals(token, credentials_exception) ==
    IF token = NoToken THEN NotAuthenticated(credentials_exception.op)
    ELSE {credentials_exception}

\* get_current_user calls get_user, which opens users.json: the token
\* decodes and names a subject
reads_users(key, token, now) ==
    token # NoToken /\ jwt_decode_ok(token, key, now) /\ token.sub # NoSub

\* Depends(get_current_user) of a protected handler: the request is
\* refused, or the handler body is entered with the user found.  get_user
\* catches FileNotFoundError only: users.json in the middle of a rewrite
\* leaves the request with a JSONDecodeError nothing catches
Depends_get_current_user(request, handler, token, credentials_exception) ==
    LET current_user == get_current_user(UsersFile, SecretKey, token, clock)
    IN  /\ Arrives(request)
        /\ IF reads_users(SecretKey, token, clock) /\ USERS_FILE \in unreadable
           THEN /\ resp' = InternalServerError(handler, NoCaller)
                /\ Answers
           ELSE IF current_user = NoUser
           THEN /\ resp' \in Refusals(token, credentials_exception)
                /\ Answers
           ELSE Admit(request, Validated(handler, current_user.username))
        /\ UNCHANGED <<service, clock, session, Files, diskVars, histVars>>

(***************************************************************************)
(* Task 4: the notes API.                                                  *)
(***************************************************************************)
NoteInputs ==
    { [title |-> "Shopping List", content |-> "Milk, Eggs"],
      [title |-> "Meeting Notes", content |-> "Discussed project timeline"] }
SampleNote == [title |-> "Shopping List", content |-> "Milk, Eggs"]
RecordIds == 1..MaxRecords

NotesOps == {"add_note", "get_my_notes", "get_note", "update_note", "delete_note"}

\* current_user: User = Depends(get_current_user) of the notes handlers
notes_Depends_get_current_user(request, handler, token) ==
    /\ service = "notes"
    /\ handler \in NotesOps
    /\ Depends_get_current_user(request, handler, token,
                                NotesUnauthenticated(handler))

\* note_id = len(notes) + 1
next_note_id(notes_list) == Len(notes_list) + 1

new_note(notes_list, note, now) ==
    [id |-> next_note_id(notes_list), title |-> note.title, content |-> note.content,
     date_created |-> FormatDateTime(now), date_updated |-> FormatDateTime(now)]

\* "except Exception" of the notes handlers: the load of a file json.load
\* cannot parse is answered with 500 and the detail of the handler
NotesError(op, username, note_id, detail) ==
    Response(op, username, note_id, HTTP_500, detail, <<>>, NoToken)

\* a dump that loads the file again and appends the new note to what it finds
notes_written_back_merged(notes, stored, created) == Append(stored, created)
\* json.dump(notes, f): the list the handler holds replaces what is stored
notes_written_back(notes, stored, created) == notes

\* POST /notes/ from the test for the file to notes.append(new_note): the
\* load of the file and the making of new_note
add_note_load(request, note) ==
    LET held == inflight[request]
        username == held.username
        file == user_notes_file(username)
        notes_list == NotesOf(file)
        created == new_note(notes_list, note, clock)
    IN  /\ service = "notes"
        /\ Staged(request, "add_note", "validated")
        /\ IF file \in unreadable
           THEN Leaves(request, NotesError("add_note", username, 0,
                                           "Error creating note"))
           ELSE /\ Count(notes_data) < MaxRecords
                /\ Proceeds(request,
                            Loaded(held, 0, file, notes_list,
                                   Append(notes_list, created), created, note))
        /\ UNCHANGED <<service, clock, session, Files, diskVars, histVars>>

\* POST /notes/ : open(user_notes_file, 'w')
add_note_open(request) ==
    /\ service = "notes"
    /\ Staged(request, "add_note", "loaded")
    /\ Opens(request)

\* POST /notes/ from json.dump(notes, f) and the close of the file to the
\* return
add_note_dump(request) ==
    LET held == inflight[request]
    IN  /\ service = "notes"
        /\ Staged(request, "add_note", "open")
        /\ Flushed(held.file,
                   notes_written_back(held.data, NotesOf(held.file), held.created))
        /\ resp' = Sent(Response("add_note", held.username, 0, HTTP_200, "",
                                 <<held.created>>, NoToken), held.sent)
        /\ assigned_ids' = Put(assigned_ids, held.file,
                               GetOrEmptySet(assigned_ids, held.file)
                                   \cup {held.created.id})
        /\ Returns(request)
        /\ UNCHANGED <<registered, issued_to>>
        /\ UNCHANGED <<service, clock, session>>

\* GET /notes/ : a missing file is no notes, and so is, under "except
\* Exception: return []", a file json.load cannot parse
get_my_notes(request) ==
    LET held == inflight[request]
        username == held.username
        file == user_notes_file(username)
    IN  /\ service = "notes"
        /\ Staged(request, "get_my_notes", "validated")
        /\ Leaves(request,
                  Response("get_my_notes", username, 0, HTTP_200, "",
                           IF file \in unreadable THEN <<>> ELSE NotesOf(file),
                           NoToken))
        /\ UNCHANGED <<service, clock, session, Files, diskVars, histVars>>

\* next((n for n in notes if n['id'] == note_id), None), as an index
\* a lookup that falls back to the first note when the id is absent
find_note_or_first(notes_list, note_id) ==
    IF IndexOfId(notes_list, note_id) = 0 /\ Len(notes_list) > 0 THEN 1
    ELSE IndexOfId(notes_list, note_id)
find_note(notes_list, note_id) == IndexOfId(notes_list, note_id)

NoteNotFound(op, username, note_id) ==
    Response(op, username, note_id, HTTP_404, "Note not found", <<>>, NoToken)

\* GET /notes/{note_id}
get_note(request, note_id) ==
    LET held == inflight[request]
        username == held.username
        file == user_notes_file(username)
        notes_list == NotesOf(file)
        i == find_note(notes_list, note_id)
    IN  /\ service = "notes"
        /\ Staged(request, "get_note", "validated")
        /\ Leaves(request,
                  IF ~notes_file_exists(file)
                  THEN NoteNotFound("get_note", username, note_id)
                  ELSE IF file \in unreadable
                  THEN NotesError("get_note", username, note_id,
                                  "Error retrieving note")
                  ELSE IF i = 0
                  THEN NoteNotFound("get_note", username, note_id)
                  ELSE Response("get_note", username, note_id, HTTP_200, "",
                                <<notes_list[i]>>, NoToken))
        /\ UNCHANGED <<service, clock, session, Files, diskVars, histVars>>

\* an update that leaves date_updated as it was
updated_note_keeps_date(old, note_update, now) ==
    [old EXCEPT !.title = note_update.title, !.content = note_update.content]
\* the note at index i with the submitted title and content and a new
\* date_updated
updated_note(old, note_update, now) ==
    [old EXCEPT !.title = note_update.title, !.content = note_update.content,
                !.date_updated = FormatDateTime(now)]

\* PUT /notes/{note_id} from the test for the file to the end of the loop
\* over the notes: the note is changed in the list the handler holds
update_note_load(request, note_id, note_update) ==
    LET held == inflight[request]
        username == held.username
        file == user_notes_file(username)
        notes_list == NotesOf(file)
        i == find_note(notes_list, note_id)
    IN  /\ service = "notes"
        /\ Staged(request, "update_note", "validated")
        /\ IF ~notes_file_exists(file)
           THEN Leaves(request, NoteNotFound("update_note", username, note_id))
           ELSE IF file \in unreadable
           THEN Leaves(request, NotesError("update_note", username, note_id,
                                           "Error updating note"))
           ELSE IF i = 0
           THEN Leaves(request, NoteNotFound("update_note", username, note_id))
           ELSE LET changed == updated_note(notes_list[i], note_update, clock)
                IN  Proceeds(request,
                             Loaded(held, note_id, file, notes_list,
                                    [notes_list EXCEPT ![i] = changed],
                                    changed, note_update))
        /\ UNCHANGED <<service, clock, session, Files, diskVars, histVars>>

\* PUT /notes/{note_id} : open(user_notes_file, 'w')
update_note_open(request) ==
    /\ service = "notes"
    /\ Staged(request, "update_note", "loaded")
    /\ Opens(request)

\* PUT /notes/{note_id} from json.dump(notes, f) and the close of the file
\* to the return
update_note_dump(request) ==
    LET held == inflight[request]
    IN  /\ service = "notes"
        /\ Staged(request, "update_note", "open")
        /\ Flushed(held.file, held.data)
        /\ resp' = Sent(Response("update_note", held.username, held.id,
                                 HTTP_200, "", <<held.created>>, NoToken), held.sent)
        /\ Returns(request)
        /\ UNCHANGED histVars
        /\ UNCHANGED <<service, clock, session>>

\* notes = [note for note in notes if note['id'] != note_id]
RECURSIVE remove_note(_, _)
remove_note(notes_list, note_id) ==
    IF notes_list = <<>> THEN <<>>
    ELSE IF Head(notes_list).id # note_id
    THEN <<Head(notes_list)>> \o remove_note(Tail(notes_list), note_id)
    ELSE remove_note(Tail(notes_list), note_id)

\* DELETE /notes/{note_id} from the test for the file to the test of the
\* length of the filtered list
delete_note_load(request, note_id) ==
    LET held == inflight[request]
        username == held.username
        file == user_notes_file(username)
        notes_list == NotesOf(file)
        kept == remove_note(notes_list, note_id)
    IN  /\ service = "notes"
        /\ Staged(request, "delete_note", "validated")
        /\ IF ~notes_file_exists(file)
           THEN Leaves(request, NoteNotFound("delete_note", username, note_id))
           ELSE IF file \in unreadable
           THEN Leaves(request, NotesError("delete_note", username, note_id,
                                           "Error deleting note"))
           ELSE IF Len(kept) = Len(notes_list)
           THEN Leaves(request, NoteNotFound("delete_note", username, note_id))
           ELSE Proceeds(request,
                         Loaded(held, note_id, file, notes_list, kept,
                                [id |-> note_id], [note_id |-> note_id]))
        /\ UNCHANGED <<service, clock, session, Files, diskVars, histVars>>

\* DELETE /notes/{note_id} : open(user_notes_file, 'w')
delete_note_open(request) ==
    /\ service = "notes"
    /\ Staged(request, "delete_note", "loaded")
    /\ Opens(request)

\* DELETE /notes/{note_id} from json.dump(notes, f) and the close of the
\* file to the return
delete_note_dump(request) ==
    LET held == inflight[request]
    IN  /\ service = "notes"
        /\ Staged(request, "delete_note", "open")
        /\ Flushed(held.file, held.data)
        /\ resp' = Response("delete_note", held.username, held.id, HTTP_200,
                            "deleted", <<>>, NoToken)
        /\ Returns(request)
        /\ UNCHANGED histVars
        /\ UNCHANGED <<service, clock, session>>

(***************************************************************************)
(* Task 3: the job application tracker.                                    *)
(***************************************************************************)
\* the bodies of POST /applications/: one with notes and one that leaves the
\* notes out
ApplicationInputs ==
    { [job_title |-> "Software Developer", company |-> "Tech Corp",
       status |-> "applied", notes |-> Some("Found this position through LinkedIn")],
      [job_title |-> "Frontend Developer", company |-> "Startup Inc",
       status |-> "interview", notes |-> None] }
StatusInputs == {"offer"}
SampleApplication ==
    [job_title |-> "Software Developer", company |-> "Tech Corp",
     status |-> "applied", notes |-> Some("Found this position through LinkedIn")]

JobsOps ==
    {"add_job_application", "get_my_applications", "update_application_status"}

\* current_user: User = Depends(get_current_user) of the job tracker
jobs_Depends_get_current_user(request, handler, token) ==
    /\ service = "jobs"
    /\ handler \in JobsOps
    /\ Depends_get_current_user(request, handler, token,
                                JobsUnauthenticated(handler))

ApplicationsOf(username) == GetOrEmpty(applications_json, username)

\* the key of applications.json a request of username reads and writes
application_owner(username) == username

\* an application whose id counts from 0
new_application_from_zero(user_applications, application, now) ==
    [id |-> Len(user_applications), job_title |-> application.job_title,
     company |-> application.company, date_applied |-> FormatDate(now),
     status |-> application.status, notes |-> application.notes]
new_application(user_applications, application, now) ==
    [id |-> Len(user_applications) + 1, job_title |-> application.job_title,
     company |-> application.company, date_applied |-> FormatDate(now),
     status |-> application.status, notes |-> application.notes]

\* "applications_data = json.load(f)" under "except: applications_data = {}"
applications_data ==
    IF APPLICATIONS_FILE \in unreadable \/ ~Exists(APPLICATIONS_FILE)
    THEN EmptyDict ELSE applications_json

\* POST /applications/ from the load of the file to
\* applications_data[username].append(...)
add_job_application_load(request, application) ==
    LET held == inflight[request]
        username == application_owner(held.username)
        user_applications == GetOrEmpty(applications_data, username)
        created == new_application(user_applications, application, clock)
    IN  /\ service = "jobs"
        /\ Staged(request, "add_job_application", "validated")
        /\ Count(applications_json) < MaxRecords
        /\ Proceeds(request,
                    Loaded(held, 0, APPLICATIONS_FILE, applications_data,
                           Put(applications_data, username,
                               Append(user_applications, created)),
                           created, application))
        /\ UNCHANGED <<service, clock, session, Files, diskVars, histVars>>

\* POST /applications/ : open(APPLICATIONS_FILE, 'w')
add_job_application_open(request) ==
    /\ service = "jobs"
    /\ Staged(request, "add_job_application", "loaded")
    /\ Opens(request)

\* POST /applications/ from json.dump(applications_data, f) and the close
\* of the file to the return: the dict the handler holds replaces what is
\* stored
add_job_application_dump(request) ==
    LET held == inflight[request]
    IN  /\ service = "jobs"
        /\ Staged(request, "add_job_application", "open")
        /\ Flushed(held.file, held.data)
        /\ resp' = Sent(Response("add_job_application", held.username, 0, HTTP_200,
                                 "", <<held.created>>, NoToken), held.sent)
        /\ Returns(request)
        /\ UNCHANGED histVars
        /\ UNCHANGED <<service, clock, session>>

\* GET /applications/
get_my_applications(request) ==
    LET held == inflight[request]
        username == application_owner(held.username)
    IN  /\ service = "jobs"
        /\ Staged(request, "get_my_applications", "validated")
        /\ Leaves(request,
                  Response("get_my_applications", held.username, 0,
                           HTTP_200, "", GetOrEmpty(applications_data, username),
                           NoToken))
        /\ UNCHANGED <<service, clock, session, Files, diskVars, histVars>>

\* the parameter "status" of update_application_status hides the module
\* fastapi.status: status.HTTP_404_NOT_FOUND raises AttributeError on a str,
\* which the server answers with 500
ApplicationNotFound(username, application_id) ==
    Response("update_application_status", username, application_id, HTTP_500,
             "Internal Server Error", <<>>, NoToken)

\* an application with the submitted status and another text in its notes
with_status_and_notes(app, new_status) ==
    [app EXCEPT !.status = new_status, !.notes = Some("status changed")]
\* app['status'] = status
with_status(app, new_status) == [app EXCEPT !.status = new_status]

\* PUT /applications/{application_id} from the load of the file to the end
\* of the loop over the caller's applications: the status is set in the dict
\* the handler holds.  The load is under an except that raises with
\* status.HTTP_404_NOT_FOUND too
update_application_status_load(request, application_id, new_status) ==
    LET held == inflight[request]
        username == application_owner(held.username)
        user_applications == ApplicationsOf(username)
        i == IndexOfId(user_applications, application_id)
    IN  /\ service = "jobs"
        /\ Staged(request, "update_application_status", "validated")
        /\ IF \/ APPLICATIONS_FILE \in unreadable
              \/ ~Exists(APPLICATIONS_FILE)
              \/ i = 0
           THEN Leaves(request, ApplicationNotFound(held.username, application_id))
           ELSE Proceeds(request,
                         Loaded(held, application_id, APPLICATIONS_FILE,
                                applications_json,
                                [applications_json EXCEPT
                                     ![username][i] = with_status(@, new_status)],
                                with_status(user_applications[i], new_status),
                                [status |-> new_status]))
        /\ UNCHANGED <<service, clock, session, Files, diskVars, histVars>>

\* PUT /applications/{application_id} : open(APPLICATIONS_FILE, 'w')
update_application_status_open(request) ==
    /\ service = "jobs"
    /\ Staged(request, "update_application_status", "loaded")
    /\ Opens(request)

\* PUT /applications/{application_id} from json.dump(applications_data, f)
\* and the close of the file to the return
update_application_status_dump(request) ==
    LET held == inflight[request]
    IN  /\ service = "jobs"
        /\ Staged(request, "update_application_status", "open")
        /\ Flushed(held.file, held.data)
        /\ resp' = Response("update_application_status", held.username,
                            held.id, HTTP_200, held.sent.status, <<>>, NoToken)
        /\ Returns(request)
        /\ UNCHANGED histVars
        /\ UNCHANGED <<service, clock, session>>

(***************************************************************************)
(* Task 2: the shopping cart.  Prices are in cents.                        *)
(***************************************************************************)
ProductInputs ==
    { [name |-> "Mouse", description |-> "Wireless mouse", price |-> 2999,
       stock |-> 5] }
CartItemInputs == {[product_id |-> i, quantity |-> q] : i \in RecordIds, q \in {3, 6}}
SampleProduct ==
    [name |-> "Mouse", description |-> "Wireless mouse", price |-> 2999, stock |-> 5]
SampleCartItem == [product_id |-> 1, quantity |-> 3]

CartOps == {"add_to_cart", "view_cart"}

\* current_user: User = Depends(get_current_user) of the cart handlers
cart_Depends_get_current_user(request, handler, token) ==
    /\ service = "cart"
    /\ handler \in CartOps
    /\ Depends_get_current_user(request, handler, token,
                                CartUnauthenticated(handler))

\* get_admin_user: the role check on top of get_current_user
\* a gate that lets every authenticated user through
is_admin_any(current_user) == TRUE
is_admin(current_user) == current_user.role = "admin"

CartForbidden(op, username) ==
    Response(op, username, 0, HTTP_403, "Access denied. Admin role required.",
             <<>>, NoToken)

\* current_user: User = Depends(get_admin_user) of add_product:
\* get_current_user, then the test of the role of the user it found
cart_Depends_get_admin_user(request, token) ==
    LET current_user == cart_get_current_user(token)
    IN  /\ service = "cart"
        /\ Arrives(request)
        /\ IF /\ reads_users(CART_SECRET_KEY, token, clock)
              /\ USERS_FILE \in unreadable
           THEN /\ resp' = InternalServerError("add_product", NoCaller)
                /\ Answers
           ELSE IF current_user = NoUser
           THEN /\ resp' \in Refusals(token, CartUnauthenticated("add_product"))
                /\ Answers
           ELSE IF ~is_admin(current_user)
           THEN /\ resp' = CartForbidden("add_product", current_user.username)
                /\ Answers
           ELSE Admit(request, Validated("add_product", current_user.username))
        /\ UNCHANGED <<service, clock, session, Files, diskVars, histVars>>

new_product(products, product) ==
    [id |-> Len(products) + 1, name |-> product.name,
     description |-> product.description, price |-> product.price,
     stock |-> product.stock]

\* "products = json.load(f)" under "except: products = []"
products_or_empty ==
    IF PRODUCTS_FILE \in unreadable \/ ~Exists(PRODUCTS_FILE) THEN <<>>
    ELSE products_json
\* "cart_data = json.load(f)" under "except: cart_data = {}"
cart_data ==
    IF CART_FILE \in unreadable \/ ~Exists(CART_FILE) THEN EmptyDict
    ELSE cart_json

\* POST /admin/add_product/ from the load of the file to
\* products.append(new_product.dict())
add_product_load(request, product) ==
    LET held == inflight[request]
        products == products_or_empty
        created == new_product(products, product)
    IN  /\ service = "cart"
        /\ Staged(request, "add_product", "validated")
        /\ Len(products_json) < MaxRecords
        /\ Proceeds(request,
                    Loaded(held, 0, PRODUCTS_FILE, products,
                           Append(products, created), created, product))
        /\ UNCHANGED <<service, clock, session, Files, diskVars, histVars>>

\* POST /admin/add_product/ : open(PRODUCTS_FILE, 'w')
add_product_open(request) ==
    /\ service = "cart"
    /\ Staged(request, "add_product", "loaded")
    /\ Opens(request)

\* POST /admin/add_product/ from json.dump(products, f) and the close of the
\* file to the return
add_product_dump(request) ==
    LET held == inflight[request]
    IN  /\ service = "cart"
        /\ Staged(request, "add_product", "open")
        /\ Flushed(held.file, held.data)
        /\ resp' = Response("add_product", held.username, 0, HTTP_200, "",
                            <<held.created>>, NoToken)
        /\ Returns(request)
        /\ UNCHANGED histVars
        /\ UNCHANGED <<service, clock, session>>

\* GET /products/ : "except: return []"
get_products ==
    /\ service = "cart"
    /\ resp' = Response("get_products", NoCaller, 0, HTTP_200, "", products_or_empty,
                        NoToken)
    /\ Answers
    /\ UNCHANGED <<service, clock, session, Files, diskVars, histVars>>

\* the key of cart.json a request of username reads and writes
cart_owner(username) == username

CartOf(key) == GetOrEmpty(cart_json, key)

\* a cart item whose total is the price of one unit
new_cart_item_unit_total(product, item) ==
    [product_id |-> item.product_id, product_name |-> product.name,
     quantity |-> item.quantity, price |-> product.price, total |-> product.price]
new_cart_item(product, item) ==
    [product_id |-> item.product_id, product_name |-> product.name,
     quantity |-> item.quantity, price |-> product.price,
     total |-> product.price * item.quantity]

\* a stock test that lets every quantity through
insufficient_stock_never(product, item) == FALSE
\* product['stock'] < item.quantity
insufficient_stock(product, item) == product.stock < item.quantity

\* a purchase that takes the quantity off the stock of the product
products_after_decrement(products, item) ==
    LET i == IndexOfId(products, item.product_id)
    IN  [products EXCEPT ![i].stock = products[i].stock - item.quantity]
\* products.json after a successful add_to_cart: the products are read for
\* the stock test and never written back
products_after_add_to_cart(products, item) == products

\* POST /cart/add/ : the load of cart.json, and the list of the caller in the
\* dict the handler then holds
add_to_cart_load_cart(request, item) ==
    LET held == inflight[request]
        key == cart_owner(held.username)
    IN  /\ service = "cart"
        /\ Staged(request, "add_to_cart", "validated")
        /\ Count(cart_json) < MaxRecords
        /\ Proceeds(request,
                    [held EXCEPT !.stage = "cart_loaded",
                                 !.id = item.product_id,
                                 !.file = CART_FILE,
                                 !.loaded = cart_data,
                                 !.data = Put(cart_data, key,
                                              GetOrEmpty(cart_data, key)),
                                 !.sent = item])
        /\ UNCHANGED <<service, clock, session, Files, diskVars, histVars>>

\* POST /cart/add/ from the load of products.json to
\* cart_data[username].append(cart_item): the product is looked up and its
\* stock tested.  The load is under "except FileNotFoundError" only, so a
\* file json.load cannot parse leaves the handler with an exception nothing
\* catches
add_to_cart_load_products(request) ==
    LET held == inflight[request]
        username == held.username
        key == cart_owner(username)
        item == held.sent
        i == IndexOfId(products_json, item.product_id)
    IN  /\ service = "cart"
        /\ Staged(request, "add_to_cart", "cart_loaded")
        /\ IF ~Exists(PRODUCTS_FILE)
           THEN Leaves(request,
                       Response("add_to_cart", username, item.product_id,
                                HTTP_404, "No products available", <<>>, NoToken))
           ELSE IF PRODUCTS_FILE \in unreadable
           THEN Leaves(request, InternalServerError("add_to_cart", username))
           ELSE IF i = 0
           THEN Leaves(request,
                       Response("add_to_cart", username, item.product_id,
                                HTTP_404, "Product not found", <<>>, NoToken))
           ELSE IF insufficient_stock(products_json[i], item)
           THEN Leaves(request,
                       Response("add_to_cart", username, item.product_id,
                                HTTP_400, "Insufficient stock", <<>>, NoToken))
           ELSE LET cart_item == new_cart_item(products_json[i], item)
                IN  Proceeds(request,
                             [held EXCEPT
                                  !.stage = "loaded",
                                  !.data = Put(held.data, key,
                                               Append(held.data[key], cart_item)),
                                  !.created = cart_item])
        /\ UNCHANGED <<service, clock, session, Files, diskVars, histVars>>

\* POST /cart/add/ : open(CART_FILE, 'w')
add_to_cart_open(request) ==
    /\ service = "cart"
    /\ Staged(request, "add_to_cart", "loaded")
    /\ Opens(request)

\* the documents after the close of file with data in it, products.json
\* being what add_to_cart makes of it
FlushedByAddToCart(file, data, item) ==
    LET before == BytesOnDisk(file)
        whole == DocBytes(file, data) >= before
    IN  /\ unreadable' = IF whole THEN unreadable \ {file}
                         ELSE unreadable \cup {file}
        /\ torn' = IF whole THEN Without(torn, file) ELSE Put(torn, file, before)
        /\ absent' = absent \ {file}
        /\ cart_json' = IF whole THEN data ELSE EmptyOf(file)
        /\ products_json' = products_after_add_to_cart(products_json, item)
        /\ UNCHANGED <<students_json, cart_users_json, jobsVars, notesVars>>

\* POST /cart/add/ from json.dump(cart_data, f) and the close of cart.json
\* to the return
add_to_cart_dump(request) ==
    LET held == inflight[request]
    IN  /\ service = "cart"
        /\ Staged(request, "add_to_cart", "open")
        /\ FlushedByAddToCart(held.file, held.data, held.sent)
        /\ resp' = Sent(Response("add_to_cart", held.username, held.id,
                                 HTTP_200, "", <<held.created>>, NoToken), held.sent)
        /\ Returns(request)
        /\ UNCHANGED histVars
        /\ UNCHANGED <<service, clock, session>>

\* sum(item.get('total', 0) for item in user_cart)
RECURSIVE total_amount(_)
total_amount(user_cart) ==
    IF user_cart = <<>> THEN 0
    ELSE Head(user_cart).total + total_amount(Tail(user_cart))

\* GET /cart/ ; the response's id field carries total_amount
view_cart(request) ==
    LET held == inflight[request]
        username == held.username
        user_cart == GetOrEmpty(cart_data, cart_owner(username))
    IN  /\ service = "cart"
        /\ Staged(request, "view_cart", "validated")
        /\ Leaves(request,
                  Response("view_cart", username, total_amount(user_cart),
                           HTTP_200, "", user_cart, NoToken))
        /\ UNCHANGED <<service, clock, session, Files, diskVars, histVars>>

(***************************************************************************)
(* Login of the three token services.                                      *)
(***************************************************************************)
LoginNames(users_data) == Usernames(users_data) \cup {UnknownName}

LoginFailed ==
    Response("login", NoCaller, 0, HTTP_401, "Invalid username or password", <<>>,
             NoToken)

\* a login that tells an unknown username from a wrong password
login_response_leaky(users_data, key, username, password, now) ==
    IF get_user(users_data, username) = NoUser
    THEN Response("login", NoCaller, 0, HTTP_404, "User not found", <<>>, NoToken)
    ELSE IF authenticate_user(users_data, username, password) = NoUser
    THEN LoginFailed
    ELSE Response("login", username, 0, HTTP_200, "bearer", <<>>,
                  create_access_token(username, key, now))
\* the response of POST /login/ of tasks 2, 3 and 4 to the users it read
login_response(users_data, key, username, password, now) ==
    LET user == authenticate_user(users_data, username, password)
    IN  IF user = NoUser THEN LoginFailed
        ELSE Response("login", user.username, 0, HTTP_200, "bearer", <<>>,
                      create_access_token(user.username, key, now))

\* POST /login/ : get_user catches FileNotFoundError only, so users.json in
\* the middle of a rewrite leaves the request with a JSONDecodeError nothing
\* catches.  A token is held by the client after a success only
AfterLogin(username, response) ==
    /\ resp' = IF USERS_FILE \in unreadable
               THEN InternalServerError("login", NoCaller)
               ELSE response
    /\ session' = IF resp'.status = HTTP_200 THEN resp'.token ELSE session
    /\ issued_to' = IF resp'.status = HTTP_200 THEN username ELSE issued_to
    /\ Answers
    /\ UNCHANGED <<service, clock, Files, diskVars, registered, assigned_ids>>

\* POST /login/ of task 3
jobs_login(username, password) ==
    /\ service = "jobs"
    /\ AfterLogin(username,
                  login_response(jobs_users_json, JOBS_SECRET_KEY, username,
                                 password, clock))

\* POST /login/ of task 2
cart_login(username, password) ==
    /\ service = "cart"
    /\ AfterLogin(username,
                  login_response(cart_users_json, CART_SECRET_KEY, username,
                                 password, clock))

\* POST /login/ of task 4
notes_login(username, password) ==
    /\ service = "notes"
    /\ AfterLogin(username,
                  login_response(notes_users_json, NOTES_SECRET_KEY, username,
                                 password, clock))

(***************************************************************************)
(* Registration of tasks 3 and 4.                                          *)
(***************************************************************************)
\* the forms a client submits: a stored username, a stored email, a new
\* user, the email of that user, and a second new user
RegisterForms(stored_name, stored_email) ==
    {[username |-> form[1], email |-> form[2], password |-> password,
      full_name |-> "New User"] :
        form \in {<<stored_name, "newuser@example.com">>,
                  <<"new_user", stored_email>>,
                  <<"new_user", "newuser@example.com">>,
                  <<"second_user", "newuser@example.com">>,
                  <<"second_user", "second@example.com">>},
        password \in Passwords}
JobsRegisterInputs == RegisterForms("john_doe", "jane@example.com")
NotesRegisterInputs == RegisterForms("alice", "bob@example.com")

\* a check of the username alone
duplicate_check_username(users, user) ==
    IF \E k \in 1..Len(users) : users[k].username = user.username
    THEN "Username already registered" ELSE ""
\* a check of the email alone
duplicate_check_email(users, user) ==
    IF \E k \in 1..Len(users) : users[k].email = user.email
    THEN "Email already registered" ELSE ""
\* the loop over the existing users: the detail of the first check that
\* fires, "" when none does
duplicate_check(users, user) ==
    LET i == FirstOf({k \in 1..Len(users) : \/ users[k].username = user.username
                                            \/ users[k].email = user.email})
    IN  IF i = 0 THEN ""
        ELSE IF users[i].username = user.username THEN "Username already registered"
        ELSE "Email already registered"

new_user(user, salt) ==
    [username |-> user.username, email |-> user.email,
     hashed_password |-> get_password_hash(user.password, salt),
     full_name |-> user.full_name]

\* POST /register/ of tasks 3 and 4 on the user list it loaded: the
\* response, and the user list the handler then holds
register_user(users, user, salt) ==
    LET detail == duplicate_check(users, user)
    IN  IF detail # ""
        THEN [resp |-> Response("register", NoCaller, 0, HTTP_400, detail, <<>>,
                                NoToken),
              users |-> users]
        ELSE [resp |-> Response("register", user.username, 0, HTTP_200,
                                "registered successfully", <<>>, NoToken),
              users |-> Append(users, new_user(user, salt))]

\* a dump that loads the file again and appends the new user to what it finds
users_written_back_merged(users, stored, created) == Append(stored, created)
\* json.dump(users, f): the list the handler holds replaces what is stored
users_written_back(users, stored, created) == users

\* POST /register/ of tasks 3 and 4 up to users.append(new_user).  The load
\* is under "except FileNotFoundError" only
register_user_load(request, user, salt) ==
    LET result == register_user(UsersFile, user, salt)
    IN  /\ Arrives(request)
        /\ IF USERS_FILE \in unreadable
           THEN /\ resp' = InternalServerError("register", NoCaller)
                /\ Answers
           ELSE IF result.resp.status # HTTP_200
           THEN /\ resp' = result.resp
                /\ Answers
           ELSE /\ Len(UsersFile) < MaxUsers
                /\ Admit(request,
                         Loaded(Validated("register", user.username), 0,
                                USERS_FILE, UsersFile, result.users,
                                new_user(user, salt), user))
        /\ UNCHANGED <<service, clock, session, Files, diskVars, histVars>>

\* POST /register/ of task 3 up to users.append(new_user)
jobs_register_user_load(request, user, salt) ==
    /\ service = "jobs"
    /\ register_user_load(request, user, salt)

\* POST /register/ of task 3: open(USERS_FILE, 'w')
jobs_register_user_open(request) ==
    /\ service = "jobs"
    /\ Staged(request, "register", "loaded")
    /\ Opens(request)

\* POST /register/ of task 3 from json.dump(users, f) and the close of
\* users.json to the return
jobs_register_user_dump(request) ==
    LET held == inflight[request]
    IN  /\ service = "jobs"
        /\ Staged(request, "register", "open")
        /\ Flushed(held.file,
                   users_written_back(held.data, jobs_users_json, held.created))
        /\ resp' = Response("register", held.username, 0, HTTP_200,
                            "registered successfully", <<>>, NoToken)
        /\ registered' = Put(registered, held.username, held.sent.password)
        /\ Returns(request)
        /\ UNCHANGED <<issued_to, assigned_ids>>
        /\ UNCHANGED <<service, clock, session>>

\* POST /register/ of task 4 up to users.append(new_user)
notes_register_user_load(request, user, salt) ==
    /\ service = "notes"
    /\ register_user_load(request, user, salt)

\* POST /register/ of task 4: open(USERS_FILE, 'w')
notes_register_user_open(request) ==
    /\ service = "notes"
    /\ Staged(request, "register", "loaded")
    /\ Opens(request)

\* POST /register/ of task 4, json.dump(users, f) and the close of
\* users.json: the handler goes on to the notes file of the user, of which
\* it has loaded nothing
notes_register_user_dump(request) ==
    LET held == inflight[request]
    IN  /\ service = "notes"
        /\ Staged(request, "register", "open")
        /\ Flushed(held.file,
                   users_written_back(held.data, notes_users_json, held.created))
        /\ Writes(request)
        /\ inflight' = [PassedBy(request) EXCEPT
                            ![request] = [held EXCEPT
                                              !.handler = "register_notes_file",
                                              !.stage = "loaded",
                                              !.file = user_notes_file(held.username),
                                              !.loaded = <<>>,
                                              !.data = <<>>,
                                              !.passed = <<>>]]
        /\ resp' = NoResponse
        /\ registered' = Put(registered, held.username, held.sent.password)
        /\ UNCHANGED <<issued_to, assigned_ids>>
        /\ UNCHANGED <<service, clock, session>>

\* POST /register/ of task 4: open(user_notes_file, 'w')
notes_register_user_open_notes_file(request) ==
    /\ service = "notes"
    /\ Staged(request, "register_notes_file", "loaded")
    /\ Opens(request)

\* POST /register/ of task 4 from json.dump([], f) and the close of the
\* notes file to the return
notes_register_user_dump_notes_file(request) ==
    LET held == inflight[request]
    IN  /\ service = "notes"
        /\ Staged(request, "register_notes_file", "open")
        /\ Flushed(held.file, held.data)
        /\ resp' = Response("register", held.username, 0, HTTP_200,
                            "registered successfully", <<>>, NoToken)
        /\ Returns(request)
        /\ UNCHANGED histVars
        /\ UNCHANGED <<service, clock, session>>

(***************************************************************************)
(* Task 1: the student portal (HTTP Basic authentication).  The portal     *)
(* ships no students.json: read_json makes the file, with the default in   *)
(* it, when a handler finds none.                                          *)
(***************************************************************************)
StudentInputs == [username : {"student1", "student2"}, password : Passwords]
SampleStudent == [username |-> "student1", password |-> Plain("secret")]
\* bodies StudentIn refuses: a username of two characters, a password of five
ShortStudentInputs ==
    { [username |-> "ab", password |-> Plain("secret")],
      [username |-> "student1", password |-> Plain("wrong")] }

MinUsernameLength == 3
MinPasswordLength == 6
\* StudentIn: username of min_length 3, password of min_length 6
StudentIn(student) ==
    /\ Len(student.username) >= MinUsernameLength
    /\ Len(student.password[1]) >= MinPasswordLength

\* the answer of the framework to a body StudentIn refuses
RequestValidationError(op) ==
    Response(op, NoCaller, 0, HTTP_422, "string_too_short", <<>>, NoToken)

new_student(student, salt) ==
    [username |-> student.username,
     password_hash |-> get_password_hash(student.password, salt),
     grades |-> <<>>]

\* a registration that replaces the record of a username already stored
portal_register_overwrite(students, student, salt) ==
    [resp |-> Response("register", student.username, 0, HTTP_201, "Registered",
                       <<>>, NoToken),
     students |-> Put(students, student.username, new_student(student, salt))]
\* POST /register/ of task 1 on the students it loaded: the response and the
\* dict written
portal_register(students, student, salt) ==
    IF student.username \in DOMAIN students
    THEN [resp |-> Response("register", NoCaller, 0, HTTP_409,
                            "Username already exists", <<>>, NoToken),
          students |-> students]
    ELSE [resp |-> Response("register", student.username, 0, HTTP_201, "Registered",
                            <<>>, NoToken),
          students |-> Put(students, student.username, new_student(student, salt))]

\* read_json raises FileError when it cannot parse the file, which register,
\* login, authenticate and get_grades turn into 500
FileError(op) ==
    Response(op, NoCaller, 0, HTTP_500, "Error reading students.json", <<>>, NoToken)

\* read_json on a file that exists: json.loads raises on a file that holds
\* bytes which are no document
read_json_raises == STUDENTS_FILE \in DOMAIN torn
\* "json.loads(path.read_text() or json.dumps(default))": what the file
\* holds, the default when it holds no byte
read_json == IF STUDENTS_FILE \in unreadable THEN EmptyDict ELSE students_json

\* what a handler holds when read_json found no students.json: it is about
\* to write the default
Defaulting(handler, username, created, payload) ==
    [Validated(handler, username) EXCEPT
         !.stage = "default", !.file = STUDENTS_FILE, !.loaded = EmptyDict,
         !.data = EmptyDict, !.created = created, !.sent = payload]

\* POST /register/ of task 1 from the validation of the body to
\* students[student.username] = ..., or to the test "not path.exists()" of
\* read_json when there is no students.json
register(request, student, salt) ==
    LET result == portal_register(read_json, student, salt)
    IN  /\ service = "portal"
        /\ Arrives(request)
        /\ IF ~StudentIn(student)
           THEN /\ resp' = RequestValidationError("register")
                /\ Answers
           ELSE IF ~Exists(STUDENTS_FILE)
           THEN Admit(request,
                      Defaulting("register", student.username,
                                 new_student(student, salt), student))
           ELSE IF read_json_raises
           THEN /\ resp' = FileError("register")
                /\ Answers
           ELSE IF result.resp.status # HTTP_201
           THEN /\ resp' = result.resp
                /\ Answers
           ELSE /\ Cardinality(DOMAIN students_json) < MaxUsers
                /\ Admit(request,
                         Loaded(Validated("register", student.username), 0,
                                STUDENTS_FILE, read_json, result.students,
                                new_student(student, salt), student))
        /\ UNCHANGED <<service, clock, session, Files, diskVars, histVars>>

\* read_json, "path.write_text(json.dumps(default, indent=2))": the open of
\* the file for writing
read_json_open(request) ==
    /\ service = "portal"
    /\ request \in DOMAIN inflight
    /\ inflight[request].stage = "default"
    /\ Truncated(STUDENTS_FILE)
    /\ Proceeds(request, [inflight[request] EXCEPT !.stage = "default_open"])
    /\ UNCHANGED <<service, clock, session, histVars>>

\* "not user or not pwd.verify(password, user['password_hash'])"
invalid_credentials(students, creds) ==
    \/ creds.username \notin DOMAIN students
    \/ ~verify_password(creds.password, students[creds.username].password_hash)

PortalUnauthorized(op) ==
    Response(op, NoCaller, 0, HTTP_401, "Invalid credentials", <<>>, NoToken)

\* read_json from the close of the file it wrote the default to, and the
\* handler on the default it returns: register goes on to
\* students[student.username] = ..., login and authenticate find no user
read_json_write(request) ==
    LET held == inflight[request]
    IN  /\ service = "portal"
        /\ request \in DOMAIN inflight
        /\ held.stage = "default_open"
        /\ Flushed(STUDENTS_FILE, EmptyDict)
        /\ Writes(request)
        /\ IF held.handler = "register"
           THEN /\ inflight' =
                       [PassedBy(request) EXCEPT
                            ![request] =
                                [held EXCEPT
                                     !.stage = "loaded",
                                     !.data = Put(EmptyDict, held.username,
                                                  held.created)]]
                /\ resp' = NoResponse
           ELSE /\ inflight' = Without(PassedBy(request), request)
                /\ resp' = PortalUnauthorized(held.handler)
        /\ UNCHANGED <<service, clock, session, histVars>>

\* POST /register/ of task 1, write_json: the open of students.json for
\* writing
register_open(request) ==
    /\ service = "portal"
    /\ Staged(request, "register", "loaded")
    /\ Opens(request)

\* POST /register/ of task 1 from the close of students.json to the return
register_dump(request) ==
    LET held == inflight[request]
    IN  /\ service = "portal"
        /\ Staged(request, "register", "open")
        /\ Flushed(held.file, held.data)
        /\ resp' = Response("register", held.username, 0, HTTP_201, "Registered",
                            <<>>, NoToken)
        /\ registered' = Put(registered, held.username, held.sent.password)
        /\ Returns(request)
        /\ UNCHANGED <<issued_to, assigned_ids>>
        /\ UNCHANGED <<service, clock, session>>

\* the response of POST /login/ of task 1 to the students it read
portal_login_response(students, payload) ==
    IF ~StudentIn(payload) THEN RequestValidationError("login")
    ELSE IF invalid_credentials(students, payload)
    THEN PortalUnauthorized("login")
    ELSE Response("login", payload.username, 0, HTTP_200, "Authenticated", <<>>,
                  NoToken)

\* POST /login/ of task 1
login(request, payload) ==
    /\ service = "portal"
    /\ Arrives(request)
    /\ IF StudentIn(payload) /\ ~Exists(STUDENTS_FILE)
       THEN Admit(request, Defaulting("login", payload.username, <<>>, payload))
       ELSE /\ resp' = IF StudentIn(payload) /\ read_json_raises
                       THEN FileError("login")
                       ELSE portal_login_response(read_json, payload)
            /\ Answers
    /\ UNCHANGED <<service, clock, session, Files, diskVars, histVars>>

\* the dependency authenticate of GET /grades/
authenticate(request, creds) ==
    /\ service = "portal"
    /\ Arrives(request)
    /\ IF ~Exists(STUDENTS_FILE)
       THEN Admit(request, Defaulting("get_grades", creds.username, <<>>, creds))
       ELSE IF read_json_raises
       THEN /\ resp' = FileError("get_grades")
            /\ Answers
       ELSE IF invalid_credentials(read_json, creds)
       THEN /\ resp' = PortalUnauthorized("get_grades")
            /\ Answers
       ELSE Admit(request, Validated("get_grades", creds.username))
    /\ UNCHANGED <<service, clock, session, Files, diskVars, histVars>>

StudentNotFound(username) ==
    Response("get_grades", username, 0, HTTP_404, "Student not found", <<>>,
             NoToken)

\* GET /grades/ : the body loads students.json again
get_grades(request) ==
    LET held == inflight[request]
        username == held.username
    IN  /\ service = "portal"
        /\ Staged(request, "get_grades", "validated")
        /\ Leaves(request,
                  IF read_json_raises THEN FileError("get_grades")
                  ELSE IF username \notin DOMAIN read_json
                  THEN StudentNotFound(username)
                  ELSE Response("get_grades", username, 0, HTTP_200, "",
                                read_json[username].grades, NoToken))
        /\ UNCHANGED <<service, clock, session, Files, diskVars, histVars>>

(***************************************************************************)
(* Time passes.                                                            *)
(***************************************************************************)
Tick ==
    /\ clock < MaxClock
    /\ clock' = clock + TickStep
    /\ resp' = NoResponse
    /\ UNCHANGED <<service, session, Files, diskVars, histVars, inflight,
                   raceVars>>

(***************************************************************************)
(* Storage faults.                                                         *)
(***************************************************************************)
\* the files that hold the records of the running service
StoreFiles ==
    CASE service = "cart" -> {PRODUCTS_FILE, CART_FILE}
      [] service = "jobs" -> {APPLICATIONS_FILE}
      [] service = "notes" ->
             {user_notes_file(username) : username \in Usernames(notes_users_json)}
      [] service = "portal" -> {STUDENTS_FILE}

\* a request has file open for writing
IsOpen(file) ==
    \E request \in DOMAIN inflight :
        /\ inflight[request].file = file
        /\ inflight[request].stage \in {"open", "default_open"}

\* the bytes of file are damaged outside the program: the file keeps its
\* size and json.load cannot parse it
file_corrupted(file) ==
    /\ file \in StoreFiles
    /\ Exists(file)
    /\ file \notin unreadable
    /\ ~IsOpen(file)
    /\ unreadable' = unreadable \cup {file}
    /\ torn' = Put(torn, file, BytesOnDisk(file))
    /\ resp' = NoResponse
    /\ UNCHANGED <<service, clock, session, Files, absent, histVars,
                   inflight, raceVars>>

\* products.json is removed outside the program
file_removed(file) ==
    /\ service = "cart"
    /\ file = PRODUCTS_FILE
    /\ Exists(file)
    /\ ~IsOpen(file)
    /\ absent' = absent \cup {file}
    /\ unreadable' = unreadable \ {file}
    /\ torn' = Without(torn, file)
    /\ products_json' = <<>>
    /\ resp' = NoResponse
    /\ UNCHANGED <<service, clock, session, students_json, cart_users_json,
                   cart_json, jobsVars, notesVars, histVars, inflight, raceVars>>

(***************************************************************************)
(* Specifications.                                                         *)
(***************************************************************************)
\* the files after initialize_files (tasks 2, 3 and 4); the student portal
\* starts without students.json
InitFiles ==
    /\ clock = 0
    /\ session = NoToken
    /\ resp = NoResponse
    /\ students_json = EmptyDict
    /\ cart_users_json = CartDefaultUsers
    /\ products_json = <<>>
    /\ cart_json = EmptyDict
    /\ jobs_users_json = JobsDefaultUsers
    /\ applications_json = EmptyDict
    /\ notes_users_json = NotesDefaultUsers
    /\ notes_data = EmptyDict
    /\ registered = EmptyDict
    /\ issued_to = NoSub
    /\ assigned_ids = EmptyDict
    /\ unreadable = {}
    /\ torn = EmptyDict
    /\ absent = IF service = "portal" THEN {STUDENTS_FILE} ELSE {}
    /\ inflight = EmptyDict
    /\ overwritten = <<>>

\* a run in which MaxOverlaps requests are served while another is in flight
InitRun == InitFiles /\ spare = MaxOverlaps
\* a run of racing clients
InitRacing == InitFiles /\ spare = MaxRaceOverlaps

\* the three services with per-owner resources
Init == service \in {"cart", "jobs", "notes"} /\ InitRun

\* the steps of the handler bodies of the notes API
NotesBodies ==
    \/ \E request \in Requests, note \in NoteInputs : add_note_load(request, note)
    \/ \E request \in Requests : add_note_open(request)
    \/ \E request \in Requests : add_note_dump(request)
    \/ \E request \in Requests : get_my_notes(request)
    \/ \E request \in Requests, note_id \in RecordIds : get_note(request, note_id)
    \/ \E request \in Requests, note_id \in RecordIds, note \in NoteInputs :
           update_note_load(request, note_id, note)
    \/ \E request \in Requests : update_note_open(request)
    \/ \E request \in Requests : update_note_dump(request)
    \/ \E request \in Requests, note_id \in RecordIds :
           delete_note_load(request, note_id)
    \/ \E request \in Requests : delete_note_open(request)
    \/ \E request \in Requests : delete_note_dump(request)

\* the steps of the handler bodies of the job tracker
JobsBodies ==
    \/ \E request \in Requests, application \in ApplicationInputs :
           add_job_application_load(request, application)
    \/ \E request \in Requests : add_job_application_open(request)
    \/ \E request \in Requests : add_job_application_dump(request)
    \/ \E request \in Requests : get_my_applications(request)
    \/ \E request \in Requests, application_id \in RecordIds,
          new_status \in StatusInputs :
           update_application_status_load(request, application_id, new_status)
    \/ \E request \in Requests : update_application_status_open(request)
    \/ \E request \in Requests : update_application_status_dump(request)

\* the steps of the handler bodies of the shopping cart
CartBodies ==
    \/ \E request \in Requests, product \in ProductInputs :
           add_product_load(request, product)
    \/ \E request \in Requests : add_product_open(request)
    \/ \E request \in Requests : add_product_dump(request)
    \/ \E request \in Requests, item \in CartItemInputs :
           add_to_cart_load_cart(request, item)
    \/ \E request \in Requests : add_to_cart_load_products(request)
    \/ \E request \in Requests : add_to_cart_open(request)
    \/ \E request \in Requests : add_to_cart_dump(request)
    \/ \E request \in Requests : view_cart(request)

\* every handler with every input a client can send
Next ==
    \/ \E request \in Requests, handler \in NotesOps,
          token \in Presented(notes_users_json) :
           notes_Depends_get_current_user(request, handler, token)
    \/ NotesBodies
    \/ \E username \in LoginNames(notes_users_json), password \in Passwords :
           notes_login(username, password)
    \/ \E request \in Requests, handler \in JobsOps,
          token \in Presented(jobs_users_json) :
           jobs_Depends_get_current_user(request, handler, token)
    \/ JobsBodies
    \/ \E username \in LoginNames(jobs_users_json), password \in Passwords :
           jobs_login(username, password)
    \/ \E request \in Requests, handler \in CartOps,
          token \in Presented(cart_users_json) :
           cart_Depends_get_current_user(request, handler, token)
    \/ \E request \in Requests, token \in Presented(cart_users_json) :
           cart_Depends_get_admin_user(request, token)
    \/ CartBodies
    \/ get_products
    \/ \E username \in LoginNames(cart_users_json), password \in Passwords :
           cart_login(username, password)

\* requests against the resource stores, the credential stores as initialised
Spec == Init /\ [][Next]_vars

\* every protected handler, with every kind of token a request can carry
NextTokens ==
    \/ \E request \in Requests, handler \in NotesOps,
          token \in AnyToken(notes_users_json) :
           notes_Depends_get_current_user(request, handler, token)
    \/ \E request \in Requests : add_note_load(request, SampleNote)
    \/ \E request \in Requests : add_note_open(request)
    \/ \E request \in Requests : add_note_dump(request)
    \/ \E request \in Requests : get_my_notes(request)
    \/ \E request \in Requests, note_id \in RecordIds : get_note(request, note_id)
    \/ \E request \in Requests, note_id \in RecordIds :
           update_note_load(request, note_id, SampleNote)
    \/ \E request \in Requests : update_note_open(request)
    \/ \E request \in Requests : update_note_dump(request)
    \/ \E request \in Requests, note_id \in RecordIds :
           delete_note_load(request, note_id)
    \/ \E request \in Requests : delete_note_open(request)
    \/ \E request \in Requests : delete_note_dump(request)
    \/ \E username \in Usernames(notes_users_json) :
           notes_login(username, Plain("secret"))
    \/ \E request \in Requests, handler \in JobsOps,
          token \in AnyToken(jobs_users_json) :
           jobs_Depends_get_current_user(request, handler, token)
    \/ \E request \in Requests :
           add_job_application_load(request, SampleApplication)
    \/ \E request \in Requests : add_job_application_open(request)
    \/ \E request \in Requests : add_job_application_dump(request)
    \/ \E request \in Requests : get_my_applications(request)
    \/ \E request \in Requests, application_id \in RecordIds,
          new_status \in StatusInputs :
           update_application_status_load(request, application_id, new_status)
    \/ \E request \in Requests : update_application_status_open(request)
    \/ \E request \in Requests : update_application_status_dump(request)
    \/ \E username \in Usernames(jobs_users_json) :
           jobs_login(username, Plain("secret"))
    \/ \E request \in Requests, handler \in CartOps,
          token \in AnyToken(cart_users_json) :
           cart_Depends_get_current_user(request, handler, token)
    \/ \E request \in Requests, token \in AnyToken(cart_users_json) :
           cart_Depends_get_admin_user(request, token)
    \/ CartBodies
    \/ \E username \in Usernames(cart_users_json) :
           cart_login(username, Plain("secret"))

\* requests with good and with refused tokens
SpecTokens == Init /\ [][NextTokens]_vars

\* the four services with a credential store
InitAuth == service \in {"portal", "cart", "jobs", "notes"} /\ InitRun

\* the bodies a client of the student portal sends, and the credentials it
\* presents
PortalInputs == StudentInputs \cup ShortStudentInputs

\* the steps of the student portal
PortalSteps ==
    \/ \E request \in Requests, student \in PortalInputs, salt \in Salts :
           register(request, student, salt)
    \/ \E request \in Requests : read_json_open(request)
    \/ \E request \in Requests : read_json_write(request)
    \/ \E request \in Requests : register_open(request)
    \/ \E request \in Requests : register_dump(request)
    \/ \E request \in Requests, payload \in PortalInputs : login(request, payload)
    \/ \E request \in Requests, creds \in PortalInputs : authenticate(request, creds)
    \/ \E request \in Requests : get_grades(request)

\* registration, login and token validation while time passes
NextAuth ==
    \/ PortalSteps
    \/ \E request \in Requests, user \in JobsRegisterInputs :
           jobs_register_user_load(request, user, DefaultSalt)
    \/ \E request \in Requests : jobs_register_user_open(request)
    \/ \E request \in Requests : jobs_register_user_dump(request)
    \/ \E username \in LoginNames(jobs_users_json), password \in Passwords :
           jobs_login(username, password)
    \/ \E request \in Requests, token \in Presented(jobs_users_json) :
           jobs_Depends_get_current_user(request, "get_my_applications", token)
    \/ \E request \in Requests : get_my_applications(request)
    \/ \E request \in Requests, user \in NotesRegisterInputs :
           notes_register_user_load(request, user, DefaultSalt)
    \/ \E request \in Requests : notes_register_user_open(request)
    \/ \E request \in Requests : notes_register_user_dump(request)
    \/ \E request \in Requests : notes_register_user_open_notes_file(request)
    \/ \E request \in Requests : notes_register_user_dump_notes_file(request)
    \/ \E username \in LoginNames(notes_users_json), password \in Passwords :
           notes_login(username, password)
    \/ \E request \in Requests, token \in Presented(notes_users_json) :
           notes_Depends_get_current_user(request, "get_my_notes", token)
    \/ \E request \in Requests : get_my_notes(request)
    \/ \E username \in LoginNames(cart_users_json), password \in Passwords :
           cart_login(username, password)
    \/ \E request \in Requests, token \in Presented(cart_users_json) :
           cart_Depends_get_current_user(request, "view_cart", token)
    \/ \E request \in Requests : view_cart(request)
    \/ Tick

SpecAuth == InitAuth /\ [][NextAuth]_vars

\* the handlers that load a record file, while files get damaged
NextStorage ==
    \/ \E file \in StoreFiles : file_corrupted(file)
    \/ \E request \in Requests, handler \in CartOps, token \in {session, NoToken} :
           cart_Depends_get_current_user(request, handler, token)
    \/ \E request \in Requests, token \in {session, NoToken} :
           cart_Depends_get_admin_user(request, token)
    \/ CartBodies
    \/ get_products
    \/ \E username \in Usernames(cart_users_json) :
           cart_login(username, Plain("secret"))
    \/ \E request \in Requests,
          handler \in {"add_job_application", "get_my_applications"},
          token \in {session, NoToken} :
           jobs_Depends_get_current_user(request, handler, token)
    \/ \E request \in Requests :
           add_job_application_load(request, SampleApplication)
    \/ \E request \in Requests : add_job_application_open(request)
    \/ \E request \in Requests : add_job_application_dump(request)
    \/ \E request \in Requests : get_my_applications(request)
    \/ \E username \in Usernames(jobs_users_json) :
           jobs_login(username, Plain("secret"))
    \/ \E request \in Requests, handler \in {"add_note", "get_my_notes"},
          token \in {session, NoToken} :
           notes_Depends_get_current_user(request, handler, token)
    \/ \E request \in Requests : add_note_load(request, SampleNote)
    \/ \E request \in Requests : add_note_open(request)
    \/ \E request \in Requests : add_note_dump(request)
    \/ \E request \in Requests : get_my_notes(request)
    \/ \E username \in Usernames(notes_users_json) :
           notes_login(username, Plain("secret"))
    \/ PortalSteps

SpecStorage == InitAuth /\ [][NextStorage]_vars

\* one client of the notes service while time passes
InitNotes == service = "notes" /\ InitRun

NextNotes ==
    \/ notes_login("alice", Plain("secret"))
    \/ \E request \in Requests,
          handler \in {"add_note", "update_note", "delete_note"} :
           notes_Depends_get_current_user(request, handler, session)
    \/ \E request \in Requests : add_note_load(request, SampleNote)
    \/ \E request \in Requests : add_note_open(request)
    \/ \E request \in Requests : add_note_dump(request)
    \/ \E request \in Requests, note_id \in RecordIds, note \in NoteInputs :
           update_note_load(request, note_id, note)
    \/ \E request \in Requests : update_note_open(request)
    \/ \E request \in Requests : update_note_dump(request)
    \/ \E request \in Requests, note_id \in RecordIds :
           delete_note_load(request, note_id)
    \/ \E request \in Requests : delete_note_open(request)
    \/ \E request \in Requests : delete_note_dump(request)
    \/ Tick

SpecNotes == InitNotes /\ [][NextNotes]_vars

InitRace == service \in {"jobs", "notes"} /\ InitRacing

\* the add requests of the clients that are logged in
NextRace ==
    \/ \E username \in Usernames(notes_users_json) :
           notes_login(username, Plain("secret"))
    \/ \E request \in Requests :
           notes_Depends_get_current_user(request, "add_note", session)
    \/ \E request \in Requests, note \in NoteInputs : add_note_load(request, note)
    \/ \E request \in Requests : add_note_open(request)
    \/ \E request \in Requests : add_note_dump(request)
    \/ \E username \in Usernames(jobs_users_json) :
           jobs_login(username, Plain("secret"))
    \/ \E request \in Requests :
           jobs_Depends_get_current_user(request, "add_job_application", session)
    \/ \E request \in Requests, application \in ApplicationInputs :
           add_job_application_load(request, application)
    \/ \E request \in Requests : add_job_application_open(request)
    \/ \E request \in Requests : add_job_application_dump(request)

SpecRace == InitRace /\ [][NextRace]_vars

InitRegisterRace == service \in {"portal", "jobs", "notes"} /\ InitRacing

\* registrations of a new and of a stored username, with an email no
\* default user has
RaceRegisterInputs ==
    {user \in JobsRegisterInputs \cup NotesRegisterInputs :
         /\ user.username # "second_user"
         /\ user.email = "newuser@example.com"}

\* the register requests, and what a user of the notes service does once
\* users.json holds the username
NextRegisterRace ==
    \/ \E request \in Requests, user \in RaceRegisterInputs :
           jobs_register_user_load(request, user, DefaultSalt)
    \/ \E request \in Requests : jobs_register_user_open(request)
    \/ \E request \in Requests : jobs_register_user_dump(request)
    \/ \E request \in Requests, user \in RaceRegisterInputs :
           notes_register_user_load(request, user, DefaultSalt)
    \/ \E request \in Requests : notes_register_user_open(request)
    \/ \E request \in Requests : notes_register_user_dump(request)
    \/ \E request \in Requests : notes_register_user_open_notes_file(request)
    \/ \E request \in Requests : notes_register_user_dump_notes_file(request)
    \/ \E password \in Passwords : notes_login("new_user", password)
    \/ \E request \in Requests, handler \in {"add_note", "get_my_notes"} :
           notes_Depends_get_current_user(request, handler, session)
    \/ \E request \in Requests : add_note_load(request, SampleNote)
    \/ \E request \in Requests : add_note_open(request)
    \/ \E request \in Requests : add_note_dump(request)
    \/ \E request \in Requests : get_my_notes(request)
    \/ \E request \in Requests, student \in StudentInputs :
           register(request, student, DefaultSalt)
    \/ \E request \in Requests : read_json_open(request)
    \/ \E request \in Requests : read_json_write(request)
    \/ \E request \in Requests : register_open(request)
    \/ \E request \in Requests : register_dump(request)

SpecRegisterRace == InitRegisterRace /\ [][NextRegisterRace]_vars

InitJobsRace == service = "jobs" /\ InitRacing

\* the requests of the job tracker that write applications.json
NextJobsRace ==
    \/ \E username \in Usernames(jobs_users_json) :
           jobs_login(username, Plain("secret"))
    \/ \E request \in Requests,
          handler \in {"add_job_application", "update_application_status"} :
           jobs_Depends_get_current_user(request, handler, session)
    \/ \E request \in Requests, application \in ApplicationInputs :
           add_job_application_load(request, application)
    \/ \E request \in Requests : add_job_application_open(request)
    \/ \E request \in Requests : add_job_application_dump(request)
    \/ \E request \in Requests, application_id \in RecordIds,
          new_status \in StatusInputs :
           update_application_status_load(request, application_id, new_status)
    \/ \E request \in Requests : update_application_status_open(request)
    \/ \E request \in Requests : update_application_status_dump(request)

SpecJobsRace == InitJobsRace /\ [][NextJobsRace]_vars

InitCart == service = "cart" /\ InitRacing

\* the shopping cart while products.json is removed and made again
NextCart ==
    \/ file_removed(PRODUCTS_FILE)
    \/ \E username \in Usernames(cart_users_json) :
           cart_login(username, Plain("secret"))
    \/ \E request \in Requests, handler \in CartOps :
           cart_Depends_get_current_user(request, handler, session)
    \/ \E request \in Requests : cart_Depends_get_admin_user(request, session)
    \/ CartBodies
    \/ get_products

SpecCart == InitCart /\ [][NextCart]_vars

(***************************************************************************)
(* Owners and their collections.  A collection is read from the document   *)
(* last written in full to the owner's file; Listed is what a request that *)
(* reads the file now finds.                                               *)
(***************************************************************************)
Owners ==
    CASE service = "notes" -> Usernames(notes_users_json)
      [] service = "jobs" -> Usernames(jobs_users_json)
      [] service = "cart" -> Usernames(cart_users_json)
      [] OTHER -> {}

CollectionIn(notes, applications, carts, owner) ==
    CASE service = "notes" -> GetOrEmpty(notes, user_notes_file(owner))
      [] service = "jobs" -> GetOrEmpty(applications, owner)
      [] service = "cart" -> GetOrEmpty(carts, owner)
      [] OTHER -> <<>>
\* before and after a step
Collection(owner) == CollectionIn(notes_data, applications_json, cart_json, owner)
CollectionAfter(owner) ==
    CollectionIn(notes_data', applications_json', cart_json', owner)

\* the file the records of an owner are in
OwnerFile(owner) ==
    CASE service = "notes" -> user_notes_file(owner)
      [] service = "jobs" -> APPLICATIONS_FILE
      [] OTHER -> CART_FILE

\* the records a request of owner finds when it reads the file now: none
\* while the file holds no document
Listed(owner) == IF OwnerFile(owner) \in unreadable THEN <<>> ELSE Collection(owner)

\* every key of the store, the owners' and any other
StoreKeys ==
    CASE service = "notes" -> DOMAIN notes_data
      [] service = "jobs" -> DOMAIN applications_json
      [] service = "cart" -> DOMAIN cart_json
      [] OTHER -> {}

\* the key an owner's records are stored under
OwnKey(owner) == IF service = "notes" THEN user_notes_file(owner) ELSE owner

Ids(records) == {records[k].id : k \in 1..Len(records)}

(***************************************************************************)
(* The steps of a behaviour.                                               *)
(***************************************************************************)
\* the stages at which a request has a file open for writing
OpenStages == {"open", "default_open"}

\* request closes, in this step, the file it had open for writing
Flushes(request) ==
    /\ request \in DOMAIN inflight
    /\ inflight[request].stage \in OpenStages
    /\ request \in DOMAIN inflight' => inflight'[request].stage \notin OpenStages

\* a request writes the last of its files in this step and returns with
\* the response resp'
Dumped ==
    \E request \in DOMAIN inflight :
        inflight[request].stage = "open" /\ request \notin DOMAIN inflight'

\* the request that returns in this step
Dumping ==
    CHOOSE request \in DOMAIN inflight :
        inflight[request].stage = "open" /\ request \notin DOMAIN inflight'

\* the step answers a request with resp'
Completes == resp' # NoResponse

\* the step is the close of a file by a request that was not alone with the
\* file from its load to its close: another request wrote the file in
\* between, or has it open for writing now
Stale ==
    \E request \in DOMAIN inflight :
        /\ Flushes(request)
        /\ \/ overwritten' # <<>>
           \/ \E other \in DOMAIN inflight \ {request} :
                  /\ inflight[other].file = inflight[request].file
                  /\ inflight[other].stage \in OpenStages

\* the step answers a request that was handled to completion before the
\* next proceeded against its file
Served == Completes /\ ~Stale

\* in a run that starts with MaxOverlaps: so far every request was answered
\* before the next arrived
Serial == spare = MaxOverlaps

\* no request is being handled
Idle == inflight = EmptyDict

OwnerOps ==
    {"add_note", "get_my_notes", "get_note", "update_note", "delete_note",
     "add_job_application", "get_my_applications", "update_application_status",
     "add_to_cart", "view_cart"}
AddOps == {"add_note", "add_job_application"}
ListOps == {"get_my_notes", "get_my_applications"}
ByIdOps == {"get_note", "update_note", "delete_note", "update_application_status"}

(***************************************************************************)
(* C1: cross-owner isolation.  With every request completed before the     *)
(* next one writes its file, a collection changes only by a request        *)
(* authenticated as its owner, no key other than the caller's is added to  *)
(* the store, and every record a request of an owner returns is a record   *)
(* of the caller's own collection (before or after the request).           *)
(***************************************************************************)
C1_CrossOwnerIsolation ==
    [][ ~Stale =>
        /\ \A owner \in Owners :
              CollectionAfter(owner) # Collection(owner)
                  => Dumped /\ resp'.caller = owner /\ resp'.op \in OwnerOps
        /\ StoreKeys' \subseteq StoreKeys \cup {OwnKey(resp'.caller)}
        /\ (Completes /\ resp'.op \in OwnerOps /\ resp'.caller # NoCaller)
              => \A k \in 1..Len(resp'.body) :
                     resp'.body[k] \in Range(Collection(resp'.caller))
                                       \cup Range(CollectionAfter(resp'.caller)) ]_vars

\* a request by id of one owner named an id only another owner's record has
C1_Witness ==
    /\ resp.op \in ByIdOps
    /\ resp.caller \in Owners
    /\ resp.status # HTTP_200
    /\ resp.id \notin Ids(Collection(resp.caller))
    /\ \E other \in Owners \ {resp.caller} : resp.id \in Ids(Collection(other))

(***************************************************************************)
(* C2: no two notes of one owner have the same id.  The code numbers a new *)
(* note len(notes) + 1, which after a deletion is an id still in use.      *)
(***************************************************************************)
C2_NoteIdsUnique ==
    \A file \in DOMAIN notes_data :
        \A i, j \in 1..Len(notes_data[file]) :
            i # j => notes_data[file][i].id # notes_data[file][j].id

(***************************************************************************)
(* C3: an id add_note once gave to a note of an owner is never given to a  *)
(* later note of that owner, and a deletion leaves the ids of the notes it *)
(* keeps as they were.                                                     *)
(***************************************************************************)
C3_NoteIdsNeverReused ==
    [][ /\ ( /\ Served /\ Dumped
             /\ resp'.op = "add_note"
             /\ resp'.status = HTTP_200 )
           => resp'.body[1].id
                  \notin GetOrEmptySet(assigned_ids, user_notes_file(resp'.caller))
        /\ ( /\ Served /\ Dumped
             /\ resp'.op = "delete_note"
             /\ resp'.status = HTTP_200 )
           => Range(CollectionAfter(resp'.caller)) \subseteq Range(Collection(resp'.caller))
      ]_vars

(***************************************************************************)
(* C4: a successful add returns a record whose id is the owner's record    *)
(* count before the add plus one and whose fields are the submitted ones,  *)
(* and a list for that owner that follows, whatever the state of the       *)
(* collection, contains that record: the record is among those a list      *)
(* request finds in the state the add is answered in, and every list       *)
(* request returns every record stored for its caller.  The first part is  *)
(* stated for the adds handled to completion before another request writes *)
(* the file.                                                               *)
(***************************************************************************)
SubmittedFields(record, payload) ==
    IF service = "notes"
    THEN record.title = payload.title /\ record.content = payload.content
    ELSE /\ record.job_title = payload.job_title
         /\ record.company = payload.company
         /\ record.status = payload.status
         /\ record.notes = payload.notes

\* the add that was answered in the last step is found by a list request
AddedIsListed ==
    (resp.op \in AddOps /\ resp.status = HTTP_200)
        => \E k \in 1..Len(Listed(resp.caller)) :
               /\ Listed(resp.caller)[k] = resp.body[1]
               /\ Listed(resp.caller)[k].id = Len(Listed(resp.caller))
               /\ SubmittedFields(Listed(resp.caller)[k], resp.sent[1])

C4_AddListRoundTrip ==
    /\ [][ ( /\ Served /\ Dumped
             /\ resp'.op \in AddOps
             /\ resp'.status = HTTP_200 )
           => /\ resp'.body[1].id = Len(Collection(resp'.caller)) + 1
              /\ SubmittedFields(resp'.body[1], resp'.sent[1])
              /\ resp'.body[1] \in Range(CollectionAfter(resp'.caller)) ]_vars
    /\ []AddedIsListed
    /\ [][ (Completes /\ resp'.op \in ListOps /\ resp'.caller # NoCaller)
           => /\ resp'.status = HTTP_200
              /\ \A k \in 1..Len(Collection(resp'.caller)) :
                     Collection(resp'.caller)[k] \in Range(resp'.body) ]_vars

(***************************************************************************)
(* The credential store of the running service.                            *)
(***************************************************************************)
RegisterInputs ==
    CASE service = "jobs" -> JobsRegisterInputs
      [] service = "notes" -> NotesRegisterInputs
      [] OTHER -> {}

KnownNames ==
    IF service = "portal" THEN DOMAIN students_json ELSE Usernames(UsersFile)
StoredHash(username) ==
    IF service = "portal" THEN students_json[username].password_hash
    ELSE get_user(UsersFile, username).hashed_password

\* what POST /login/ of the running service answers to a request that reads
\* the credential file now
LoginResponse(username, password) ==
    IF service = "portal"
    THEN LET payload == [username |-> username, password |-> password]
         IN  IF ~StudentIn(payload) THEN RequestValidationError("login")
             ELSE IF ~Exists(STUDENTS_FILE) THEN PortalUnauthorized("login")
             ELSE IF read_json_raises THEN FileError("login")
             ELSE portal_login_response(read_json, payload)
    ELSE IF USERS_FILE \in unreadable THEN InternalServerError("login", NoCaller)
    ELSE login_response(UsersFile, SecretKey, username, password, clock)

\* what the token validation of the running service resolves a token to
CurrentUser(token) == get_current_user(UsersFile, SecretKey, token, clock)

AllNames ==
    KnownNames \cup {UnknownName, "new_user", "second_user", "student1", "ab"}
AllPasswords == Passwords \cup {Plain("wrong"), Plain("")}

\* every answer to a login is the answer LoginResponse gives for some
\* credentials
LoginAnswersAsRead ==
    (Completes /\ resp'.op = "login")
        => \E username \in AllNames, password \in AllPasswords :
               resp' = LoginResponse(username, password)

\* a register request that was refused changes no file
RefusedRegisterChangesNothing ==
    ( /\ Completes
      /\ resp'.op = "register"
      /\ resp'.status \in {HTTP_400, HTTP_409} )
    => /\ UNCHANGED <<students_json, jobs_users_json, notes_users_json, notes_data>>
       /\ UNCHANGED diskVars

(***************************************************************************)
(* C5: registering a username the credential store already holds fails     *)
(* with 409 (student portal) or 400 (job tracker, notes) and writes the    *)
(* store back as it was.                                                   *)
(***************************************************************************)
C5_ExistingUsernameHolds ==
    /\ \A user \in RegisterInputs, salt \in Salts :
           user.username \in KnownNames
               => LET result == register_user(UsersFile, user, salt)
                  IN  /\ result.resp.status = HTTP_400
                      /\ result.users = UsersFile
    /\ service = "portal"
           => \A student \in StudentInputs, salt \in Salts :
                  student.username \in KnownNames
                      => LET result == portal_register(students_json, student, salt)
                         IN  /\ result.resp.status = HTTP_409
                             /\ result.students = students_json

C5_DuplicateUsernameRejected ==
    /\ []C5_ExistingUsernameHolds
    /\ [][RefusedRegisterChangesNothing]_vars

\* a register request was refused for its username after a registration
C5_Witness ==
    /\ resp.op = "register"
    /\ resp.detail \in {"Username already registered", "Username already exists"}
    /\ DOMAIN registered # {}

(***************************************************************************)
(* C6, as stated: two users with different usernames, neither in the       *)
(* store, both register successfully.                                      *)
(***************************************************************************)
C6_DifferentUsernamesRegister ==
    \A a \in RegisterInputs, b \in RegisterInputs, salt \in Salts :
        ( /\ a.username # b.username
          /\ a.username \notin KnownNames
          /\ b.username \notin KnownNames )
        => LET first == register_user(UsersFile, a, salt)
               second == register_user(first.users, b, salt)
           IN  first.resp.status = HTTP_200 /\ second.resp.status = HTTP_200

(***************************************************************************)
(* C6, amended: two users with different usernames and different emails,   *)
(* none of them in the store, both register successfully (the student      *)
(* portal has no email), and while every request has been answered before  *)
(* the next arrived, every registered username resolves, between two       *)
(* requests, to its own record: the lookup finds the record and the login  *)
(* with the registered password is answered 200 for that username.         *)
(***************************************************************************)
Emails(users_data) == {users_data[i].email : i \in 1..Len(users_data)}

C6_BothRegister ==
    /\ \A a \in RegisterInputs, b \in RegisterInputs, salt \in Salts :
        ( /\ a.username # b.username
          /\ a.email # b.email
          /\ {a.username, b.username} \cap KnownNames = {}
          /\ {a.email, b.email} \cap Emails(UsersFile) = {} )
        => LET first == register_user(UsersFile, a, salt)
               second == register_user(first.users, b, salt)
           IN  /\ first.resp.status = HTTP_200
               /\ second.resp.status = HTTP_200
               /\ get_user(second.users, a.username) = new_user(a, salt)
               /\ get_user(second.users, b.username) = new_user(b, salt)
    /\ service = "portal"
        => \A a \in StudentInputs, b \in StudentInputs, salt \in Salts :
            ( /\ a.username # b.username
              /\ {a.username, b.username} \cap KnownNames = {} )
            => LET first == portal_register(students_json, a, salt)
                   second == portal_register(first.students, b, salt)
               IN  /\ first.resp.status = HTTP_201
                   /\ second.resp.status = HTTP_201
                   /\ second.students[a.username] = new_student(a, salt)
                   /\ second.students[b.username] = new_student(b, salt)

C6_EachRetrievable ==
    (Serial /\ Idle) => \A username \in DOMAIN registered :
        /\ IF service = "portal"
           THEN /\ ~read_json_raises
                /\ username \in DOMAIN read_json
                /\ read_json[username].username = username
           ELSE /\ USERS_FILE \notin unreadable
                /\ get_user(UsersFile, username).username = username
                /\ verify_password(registered[username],
                                   get_user(UsersFile, username).hashed_password)
        /\ LoginResponse(username, registered[username]).status = HTTP_200
        /\ LoginResponse(username, registered[username]).caller = username

C6_DifferentUsersRegister == C6_BothRegister /\ C6_EachRetrievable

\* two users have registered, one request after the other, and the second
\* of them has just been answered
C6_Witness ==
    /\ Cardinality(DOMAIN registered) = 2
    /\ resp.op = "register"
    /\ resp.status \in {HTTP_200, HTTP_201}
    /\ Serial
    /\ Idle

(***************************************************************************)
(* C7, as stated: register fails with the duplicate-email error whenever   *)
(* an existing record with another username has the same email.            *)
(***************************************************************************)
C7_SameEmailIsEmailError ==
    \A user \in RegisterInputs, salt \in Salts :
        (\E k \in 1..Len(UsersFile) : /\ UsersFile[k].email = user.email
                                      /\ UsersFile[k].username # user.username)
        => LET result == register_user(UsersFile, user, salt)
           IN  /\ result.resp.status = HTTP_400
               /\ result.resp.detail = "Email already registered"
               /\ result.users = UsersFile

(***************************************************************************)
(* C7, amended: when an existing record has the same email, register fails *)
(* with 400 and the store is unchanged; the error is the duplicate-email   *)
(* error when no record up to and including the first one with that email  *)
(* has the request's username, and the duplicate-username error otherwise  *)
(* (the loop reports the first hit, and checks the username of a record    *)
(* before its email).                                                      *)
(***************************************************************************)
C7_SameEmailHolds ==
    \A user \in RegisterInputs, salt \in Salts :
        LET hits == {k \in 1..Len(UsersFile) : UsersFile[k].email = user.email}
            result == register_user(UsersFile, user, salt)
        IN  hits # {}
            => /\ result.resp.status = HTTP_400
               /\ result.users = UsersFile
               /\ result.resp.detail =
                      IF \A j \in 1..FirstOf(hits) :
                             UsersFile[j].username # user.username
                      THEN "Email already registered"
                      ELSE "Username already registered"

\* a register request is refused with the detail the scan of the file it
\* read gives, and a refused request writes nothing
C7_RefusedAsScanned ==
    ( /\ Completes
      /\ resp'.op = "register"
      /\ resp'.status = HTTP_400 )
    => /\ \E user \in RegisterInputs :
              /\ duplicate_check(UsersFile, user) # ""
              /\ resp'.detail = duplicate_check(UsersFile, user)
       /\ RefusedRegisterChangesNothing

C7_DuplicateEmailRejected ==
    /\ []C7_SameEmailHolds
    /\ [][C7_RefusedAsScanned]_vars

\* a register request was refused for its username although the email it
\* carries is the email of a user with another username, who registered
\* before
C7_Witness ==
    /\ resp.op = "register"
    /\ resp.status = HTTP_400
    /\ resp.detail = "Username already registered"
    /\ \E user \in RegisterInputs :
           /\ duplicate_check(UsersFile, user) = "Username already registered"
           /\ \E k \in 1..Len(UsersFile) :
                  /\ UsersFile[k].email = user.email
                  /\ UsersFile[k].username # user.username
                  /\ UsersFile[k].username \in DOMAIN registered

(***************************************************************************)
(* C8, as stated: for every user who registered, the stored hash is not    *)
(* the password, a login with the username and that password succeeds in   *)
(* every later state, and a login with the username and any other password *)
(* fails with 401.                                                         *)
(***************************************************************************)
C8_RegisteredPasswordVerifies ==
    \A username \in DOMAIN registered :
        /\ username \in KnownNames
        /\ StoredHash(username) # registered[username]
        /\ LoginResponse(username, registered[username]).status = HTTP_200
        /\ LoginResponse(username, registered[username]).caller = username
        /\ \A password \in (AllPasswords \cup {StoredHash(username)})
                               \ {registered[username]} :
               LoginResponse(username, password).status = HTTP_401

(***************************************************************************)
(* C8, amended: for every user who registered, with every request answered *)
(* before the next arrived, in every later state between two requests the  *)
(* stored hash is not the password, a login with the username and that     *)
(* password succeeds, and a login with the username and another password   *)
(* fails: with 401, and in the student portal with 422 when the other      *)
(* password has fewer than six characters, the body of a login being       *)
(* validated as StudentIn before the credentials are looked at.            *)
(***************************************************************************)
\* the status of a login that fails for its password
WrongPasswordStatus(username, password) ==
    IF /\ service = "portal"
       /\ ~StudentIn([username |-> username, password |-> password])
    THEN HTTP_422
    ELSE HTTP_401

C8_RegisteredPasswordLogsIn ==
    (Serial /\ Idle) => \A username \in DOMAIN registered :
        /\ username \in KnownNames
        /\ StoredHash(username) # registered[username]
        /\ LoginResponse(username, registered[username]).status = HTTP_200
        /\ LoginResponse(username, registered[username]).caller = username
        /\ \A password \in (AllPasswords \cup {StoredHash(username)})
                               \ {registered[username]} :
               LoginResponse(username, password).status
                   = WrongPasswordStatus(username, password)

C8_RegisteredLogin ==
    /\ []C8_RegisteredPasswordLogsIn
    /\ [][LoginAnswersAsRead]_vars

\* a registered user has logged in after time has passed, every request
\* answered before the next
C8_Witness ==
    /\ resp.op = "login"
    /\ resp.status = HTTP_200
    /\ resp.caller \in DOMAIN registered
    /\ clock > 0
    /\ Serial
    /\ Idle

(***************************************************************************)
(* C9, as stated: a login with an unknown username and a login with a      *)
(* known username and a wrong password get the same response, a 401 with   *)
(* the same detail and no token, and the client holds no new token         *)
(* afterwards.                                                             *)
(***************************************************************************)
C9_SameFailure ==
    \A known \in KnownNames :
        \A wrong \in {p \in AllPasswords : ~verify_password(p, StoredHash(known))} :
            LET failed == LoginResponse(known, wrong)
            IN  /\ failed.status = HTTP_401
                /\ failed.token = NoToken
                /\ \A unknown \in AllNames \ KnownNames, any \in AllPasswords :
                       LoginResponse(unknown, any) = failed

C9_LoginFailuresAlike ==
    /\ []C9_SameFailure
    /\ [][ (Completes /\ resp'.op = "login" /\ resp'.status # HTTP_200)
               => resp'.status = HTTP_401 /\ session' = session ]_vars

(***************************************************************************)
(* C9, amended: for every password, a login with an unknown username and a *)
(* login with a known username for which the password is wrong get the     *)
(* same response, which carries no token: the 401 of the service; in the   *)
(* student portal 422 when the password has fewer than six characters (or  *)
(* the username fewer than three, which no stored username has); and a 500 *)
(* while the credential file cannot be parsed - in the job tracker, the    *)
(* notes service and the shopping cart while a registration has users.json *)
(* open for writing.  The client holds no new token after a failed login.  *)
(***************************************************************************)
\* the usernames the body of a login may carry
ValidNames ==
    IF service = "portal" THEN {name \in AllNames : Len(name) >= MinUsernameLength}
    ELSE AllNames

\* the status of a failed login with password
FailedLoginStatus(password) ==
    IF service = "portal"
    THEN IF ~StudentIn([username |-> UnknownName, password |-> password])
         THEN HTTP_422
         ELSE IF Exists(STUDENTS_FILE) /\ read_json_raises THEN HTTP_500
         ELSE HTTP_401
    ELSE IF USERS_FILE \in unreadable THEN HTTP_500
    ELSE HTTP_401

C9_SameFailureForPassword ==
    \A known \in KnownNames :
        \A wrong \in {p \in AllPasswords : ~verify_password(p, StoredHash(known))} :
            LET failed == LoginResponse(known, wrong)
            IN  /\ failed.status = FailedLoginStatus(wrong)
                /\ failed.token = NoToken
                /\ \A unknown \in ValidNames \ KnownNames :
                       LoginResponse(unknown, wrong) = failed

C9_LoginFailuresUniform ==
    /\ []C9_SameFailureForPassword
    /\ [][LoginAnswersAsRead]_vars
    /\ [][ (Completes /\ resp'.op = "login" /\ resp'.status # HTTP_200)
               => /\ resp'.status \in {HTTP_401, HTTP_422, HTTP_500}
                  /\ resp'.token = NoToken
                  /\ session' = session ]_vars

\* a login has failed with 401 in a service that has a registered user
C9_Witness ==
    /\ resp.op = "login"
    /\ resp.status = HTTP_401
    /\ DOMAIN registered # {}
    /\ DOMAIN registered \subseteq KnownNames

(***************************************************************************)
(* C10: a token issued at time t for a user carries the expiry t + 30      *)
(* minutes; after the expiry its validation fails; and whenever its        *)
(* validation succeeds it resolves to the record of the user it was issued *)
(* to.  The token of a request is validated once, when the request         *)
(* arrives: a handler is entered only with a token that has not expired,   *)
(* and as the user the token was issued to, and it answers as that user    *)
(* (the body of the handler may run, and answer, after the expiry).        *)
(***************************************************************************)
ValidatedOps == {"get_my_applications", "get_my_notes", "view_cart"}

C10_HeldToken ==
    session # NoToken
        => /\ session.sub = issued_to
           /\ session.exp < clock => CurrentUser(session) = NoUser
           /\ CurrentUser(session) # NoUser
                  => /\ CurrentUser(session).username = issued_to
                     /\ CurrentUser(session) = get_user(UsersFile, issued_to)

C10_TokenLifetimeAndBinding ==
    /\ []C10_HeldToken
    /\ [][ /\ ( /\ Completes
                /\ resp'.op = "login"
                /\ resp'.status = HTTP_200
                /\ service # "portal" )
              => /\ resp'.token.exp = clock + ACCESS_TOKEN_EXPIRE_MINUTES
                 /\ resp'.token.sub = issued_to'
                 /\ session' = resp'.token
           /\ \A request \in DOMAIN inflight' \ DOMAIN inflight :
                  inflight'[request].handler \in ValidatedOps
                      => /\ inflight'[request].username = issued_to
                         /\ session # NoToken
                         /\ ~(session.exp < clock)
           /\ \A request \in DOMAIN inflight \ DOMAIN inflight' :
                  ( /\ inflight[request].handler \in ValidatedOps
                    /\ resp'.status = HTTP_200 )
                  => resp'.caller = inflight[request].username ]_vars

\* the token the client holds has expired and a request was refused
C10_Witness ==
    /\ session # NoToken
    /\ session.exp < clock
    /\ resp.op \in ValidatedOps
    /\ resp.status = HTTP_401

(***************************************************************************)
(* C11: every token get_current_user has to refuse (malformed, signed with *)
(* another key, expired, without subject, of a user the store does not     *)
(* hold) resolves to no user, and a request that presents one is answered  *)
(* with the one 401 response of the service while no file and not the      *)
(* client's token changes: the handler does not run.  A request without an *)
(* Authorization header presents no token; HTTPBearer answers it.          *)
(***************************************************************************)
Unauthenticated(op) ==
    CASE service = "jobs" -> JobsUnauthenticated(op)
      [] service = "notes" -> NotesUnauthenticated(op)
      [] OTHER -> CartUnauthenticated(op)

Refused(op) ==
    /\ resp' = Unauthenticated(op)
    /\ UNCHANGED <<Files, diskVars, session, inflight>>

C11_RefusedTokensResolveToNobody ==
    \A token \in RefusedTokens(UsersFile) : CurrentUser(token) = NoUser

\* the step is the arrival of a request to handler op that presents the
\* token
IsRequest(op, token) ==
    CASE op \in NotesOps ->
            \E request \in Requests :
                notes_Depends_get_current_user(request, op, token)
      [] op \in JobsOps ->
            \E request \in Requests :
                jobs_Depends_get_current_user(request, op, token)
      [] op \in CartOps ->
            \E request \in Requests :
                cart_Depends_get_current_user(request, op, token)
      [] op = "add_product" ->
            \E request \in Requests : cart_Depends_get_admin_user(request, token)
      [] OTHER -> FALSE

C12_AbsentNoteIsNotFound ==
    [][ ( /\ Served
          /\ resp'.op \in {"update_note", "delete_note"}
          /\ resp'.caller \in Owners
          /\ resp'.id \notin Ids(Collection(resp'.caller)) )
        => /\ resp'.status = HTTP_404
           /\ resp'.detail = "Note not found"
           /\ resp'.body = <<>>
           /\ notes_data' = notes_data ]_vars

(***************************************************************************)
(* C12, amended: such a request is answered 404 "Note not found" when the  *)
(* owner's notes file can be parsed or does not exist, and 500 ("Error     *)
(* updating note", "Error deleting note") when the file exists and cannot  *)
(* be parsed, as while another request of the owner has it open for        *)
(* writing; either way no notes file is written.                           *)
(***************************************************************************)
NotesErrorDetail(op) ==
    IF op = "update_note" THEN "Error updating note" ELSE "Error deleting note"

C12_AbsentNoteFails ==
    [][ ( /\ Served
          /\ resp'.op \in {"update_note", "delete_note"}
          /\ resp'.caller \in Owners
          /\ resp'.id \notin Ids(Collection(resp'.caller)) )
        => /\ IF user_notes_file(resp'.caller) \in unreadable
              THEN /\ resp'.status = HTTP_500
                   /\ resp'.detail = NotesErrorDetail(resp'.op)
              ELSE /\ resp'.status = HTTP_404
                   /\ resp'.detail = "Note not found"
           /\ resp'.body = <<>>
           /\ notes_data' = notes_data
           /\ UNCHANGED diskVars ]_vars

\* an owner who has notes named an id none of them carries
C12_Witness ==
    /\ resp.op \in {"update_note", "delete_note"}
    /\ resp.status = HTTP_404
    /\ resp.caller \in Owners
    /\ Collection(resp.caller) # <<>>
    /\ resp.id \notin Ids(Collection(resp.caller))

(***************************************************************************)
(* C13: in the job tracker a PUT /applications/{id} of a caller who has no *)
(* application with that id is answered 404 and leaves applications.json   *)
(* unchanged.  The code builds the 404 from status.HTTP_404_NOT_FOUND      *)
(* where status is the str parameter of the handler, so the request ends   *)
(* in an AttributeError and the answer is 500.                             *)
(***************************************************************************)
C13_AbsentApplicationIsNotFound ==
    [][ ( /\ Served
          /\ resp'.op = "update_application_status"
          /\ resp'.caller \in Owners
          /\ resp'.id \notin Ids(Collection(resp'.caller)) )
        => /\ resp'.status = HTTP_404
           /\ applications_json' = applications_json ]_vars

(***************************************************************************)
(* C14: add_product answers 401 to a request whose token resolves to no    *)
(* user, whatever role the token names, and to a request without a token;  *)
(* 403 to an authenticated user whose role is not "admin"; in both cases   *)
(* products.json is unchanged.  It succeeds, appending one product, only   *)
(* for a user whose role is "admin".                                       *)
(***************************************************************************)
\* what the gate answers to the tokens
GateAnswers(tokens) ==
    \A token \in tokens, request \in Requests :
        cart_Depends_get_admin_user(request, token)
        => LET user == cart_get_current_user(token)
           IN  /\ user = NoUser
                   => /\ resp'.status = HTTP_401
                      /\ products_json' = products_json
                      /\ inflight' = inflight
               /\ (user # NoUser /\ user.role # "admin")
                   => /\ resp'.status = HTTP_403
                      /\ resp'.caller = user.username
                      /\ products_json' = products_json
                      /\ inflight' = inflight

\* a product is appended for an admin, and by nothing else
OnlyAdminsAdd ==
    (Served /\ resp'.op = "add_product")
        => /\ resp'.status = HTTP_200
                  => /\ resp'.caller \in Usernames(cart_users_json)
                     /\ get_user(cart_users_json, resp'.caller).role = "admin"
                     /\ Len(products_json') = Len(products_json) + 1
           /\ products_json' # products_json => resp'.status = HTTP_200

C14_AdminGate ==
    /\ [][GateAnswers(AnyToken(cart_users_json))]_vars
    /\ [][OnlyAdminsAdd]_vars

\* the gate for the requests that present a token: 401 when the token
\* resolves to no user, 403 for another role than "admin", and a product
\* appended for an admin only
C14_AdminGateWithToken ==
    /\ [][GateAnswers(AnyToken(cart_users_json) \ {NoToken})]_vars
    /\ [][OnlyAdminsAdd]_vars

(***************************************************************************)
(* C15, as stated: add_to_cart fails with NotFound (404) when no product   *)
(* of the product collection has the requested id, and with                *)
(* InsufficientStock (400) when the quantity exceeds the stock of the      *)
(* product; in both cases cart.json is unchanged and no empty cart is      *)
(* written for the caller.  The product collection is what is stored when  *)
(* the handler reads products.json.                                        *)
(***************************************************************************)
ProductsWithId(product_id) ==
    {k \in 1..Len(products_json) : products_json[k].id = product_id}

\* the handler of request reads products.json in this step
ReadsProducts(request) ==
    /\ Staged(request, "add_to_cart", "cart_loaded")
    /\ request \in DOMAIN inflight' => inflight'[request].stage # "cart_loaded"

\* the request is answered with status and writes nothing
RefusedWith(request, status) ==
    /\ resp'.op = "add_to_cart"
    /\ resp'.caller = inflight[request].username
    /\ resp'.status = status
    /\ resp'.body = <<>>
    /\ request \notin DOMAIN inflight'
    /\ cart_json' = cart_json
    /\ UNCHANGED diskVars

C15_CartFailures ==
    [][ \A request \in DOMAIN inflight :
            ReadsProducts(request)
            => LET item == inflight[request].sent
               IN  /\ ProductsWithId(item.product_id) = {}
                       => RefusedWith(request, HTTP_404)
                   /\ (\E k \in ProductsWithId(item.product_id) :
                           item.quantity > products_json[k].stock)
                       => RefusedWith(request, HTTP_400) ]_vars

(***************************************************************************)
(* C15, amended: when the handler reads products.json, add_to_cart fails   *)
(* with 404 "No products available" when there is no such file, with 500   *)
(* when the file cannot be parsed (as while an add_product has it open for *)
(* writing), with 404 "Product not found" when the file holds no product   *)
(* with the requested id, and with 400 "Insufficient stock" when the       *)
(* quantity exceeds the stock of the product; an add_to_cart that fails    *)
(* leaves cart.json unchanged (no empty cart is written for the caller).   *)
(***************************************************************************)
C15_CartFailuresAsRead ==
    /\ [][ \A request \in DOMAIN inflight :
            ReadsProducts(request)
            => LET item == inflight[request].sent
               IN  IF ~Exists(PRODUCTS_FILE)
                   THEN /\ RefusedWith(request, HTTP_404)
                        /\ resp'.detail = "No products available"
                   ELSE IF PRODUCTS_FILE \in unreadable
                   THEN RefusedWith(request, HTTP_500)
                   ELSE /\ ProductsWithId(item.product_id) = {}
                            => /\ RefusedWith(request, HTTP_404)
                               /\ resp'.detail = "Product not found"
                        /\ (\E k \in ProductsWithId(item.product_id) :
                                item.quantity > products_json[k].stock)
                            => /\ RefusedWith(request, HTTP_400)
                               /\ resp'.detail = "Insufficient stock" ]_vars
    /\ [][ (Completes /\ resp'.op = "add_to_cart" /\ resp'.status # HTTP_200)
               => cart_json' = cart_json /\ UNCHANGED diskVars ]_vars

\* a user without a cart asked for more than the stock and still has no cart
C15_Witness ==
    /\ resp.op = "add_to_cart"
    /\ resp.status = HTTP_400
    /\ resp.caller \in Owners
    /\ resp.caller \notin DOMAIN cart_json
    /\ ProductsWithId(resp.id) # {}

(***************************************************************************)
(* C16: add_to_cart, successful or failed, leaves products.json as it is,  *)
(* and every product is in every state the record add_product stored: its  *)
(* stock is never reduced.  (That the quantities in the carts can then add *)
(* up to more than the stock is the state C16_Witness describes.)          *)
(***************************************************************************)
C16_ProductsAsAdded ==
    \A k \in 1..Len(products_json) :
        \E product \in ProductInputs :
            products_json[k] = [id |-> k, name |-> product.name,
                                description |-> product.description,
                                price |-> product.price, stock |-> product.stock]

C16_CartNeverChangesProducts ==
    /\ []C16_ProductsAsAdded
    /\ [][ (Completes /\ resp'.op = "add_to_cart")
               => products_json' = products_json ]_vars

\* the quantity of product product_id in the carts of the owners in names
RECURSIVE QuantityIn(_, _)
QuantityIn(cart, product_id) ==
    IF cart = <<>> THEN 0
    ELSE (IF Head(cart).product_id = product_id THEN Head(cart).quantity ELSE 0)
         + QuantityIn(Tail(cart), product_id)
RECURSIVE QuantityInCarts(_, _)
QuantityInCarts(names, product_id) ==
    IF names = {} THEN 0
    ELSE LET n == CHOOSE x \in names : TRUE
         IN  QuantityIn(cart_json[n], product_id)
                 + QuantityInCarts(names \ {n}, product_id)

\* after a successful add_to_cart the carts hold more of a product than its
\* unchanged stock
C16_Witness ==
    /\ resp.op = "add_to_cart"
    /\ resp.status = HTTP_200
    /\ \E k \in 1..Len(products_json) :
          QuantityInCarts(DOMAIN cart_json, products_json[k].id)
              > products_json[k].stock

(***************************************************************************)
(* C17: the cart scenario.  With the Mouse (price 29.99, stock 5) the only *)
(* product, added by the admin to an empty products.json, and the cart of  *)
(* the customer empty: the customer's add_to_cart of 6 is answered 400     *)
(* "Insufficient stock" and leaves the cart empty; the add_to_cart of 3    *)
(* succeeds; and with that one item in the cart view_cart reports one item *)
(* and total_amount 3 x 29.99 = 89.97 (prices are in cents: 8997).  The    *)
(* requests of the scenario follow one another: each reads its files while *)
(* no request has a file open for writing.                                 *)
(***************************************************************************)
Mouse == [id |-> 1, name |-> "Mouse", description |-> "Wireless mouse",
          price |-> 2999, stock |-> 5]
MouseInCart == [product_id |-> 1, product_name |-> "Mouse", quantity |-> 3,
                price |-> 2999, total |-> 8997]
Customer == "customer1"

\* request is the customer's add_to_cart of quantity of the Mouse, with the
\* customer's cart loaded empty
CustomerAdds(request, quantity) ==
    /\ Staged(request, "add_to_cart", "cart_loaded")
    /\ inflight[request].username = Customer
    /\ inflight[request].sent = [product_id |-> 1, quantity |-> quantity]
    /\ inflight[request].data[Customer] = <<>>
    /\ CartOf(Customer) = <<>>

C17_CartScenario ==
    /\ [][ (service = "cart" /\ products_json = <<Mouse>> /\ unreadable = {})
        => \A request \in Requests :
           /\ (CustomerAdds(request, 6) /\ add_to_cart_load_products(request))
              => /\ resp'.status = HTTP_400
                 /\ resp'.detail = "Insufficient stock"
                 /\ CartOf(Customer)' = <<>>
                 /\ request \notin DOMAIN inflight'
           /\ (CustomerAdds(request, 3) /\ add_to_cart_load_products(request))
              => /\ request \in DOMAIN inflight'
                 /\ inflight'[request].created = MouseInCart
                 /\ inflight'[request].data[Customer] = <<MouseInCart>>
           /\ ( /\ CartOf(Customer) = <<MouseInCart>>
                /\ Staged(request, "view_cart", "validated")
                /\ inflight[request].username = Customer
                /\ view_cart(request) )
              => /\ resp'.status = HTTP_200
                 /\ resp'.caller = Customer
                 /\ Len(resp'.body) = 1
                 /\ resp'.body[1].quantity = 3
                 /\ resp'.id = 3 * 2999
                 /\ resp'.id = 8997 ]_vars
    /\ [][ ( /\ service = "cart"
             /\ products_json = <<Mouse>>
             /\ CartOf(Customer) = <<>>
             /\ Served /\ Dumped
             /\ inflight[Dumping].handler = "add_to_cart"
             /\ inflight[Dumping].username = Customer
             /\ inflight[Dumping].sent = [product_id |-> 1, quantity |-> 3] )
           => /\ resp'.status = HTTP_200
              /\ resp'.caller = Customer
              /\ cart_json'[Customer] = <<MouseInCart>> ]_vars

\* the customer has viewed the cart with the three mice, the admin's Mouse
\* being the only product
C17_Witness ==
    /\ service = "cart"
    /\ products_json = <<Mouse>>
    /\ cart_json = [n \in {Customer} |-> <<MouseInCart>>]
    /\ unreadable = {}
    /\ resp.op = "view_cart"
    /\ resp.caller = Customer
    /\ resp.id = 8997

(***************************************************************************)
(* C18: the notes scenario.  In a freshly started notes service register   *)
(* of "alice" with password "secret123" succeeds; the login with these     *)
(* credentials returns a bearer token; the POST of the note "Shopping      *)
(* List" with that token succeeds; and GET /notes/ then returns exactly    *)
(* one note, with id 1, that title and date_created = date_updated.        *)
(* initialize_files seeds users.json with a user "alice" (password         *)
(* "secret"), so the register of the scenario is refused with 400.         *)
(***************************************************************************)
AliceRequest ==
    [username |-> "alice", email |-> "newuser@example.com",
     password |-> Plain("secret123"), full_name |-> "New User"]
FreshNotesService ==
    /\ service = "notes"
    /\ notes_users_json = NotesDefaultUsers
    /\ notes_data = EmptyDict
    /\ session = NoToken
    /\ unreadable = {}

\* request is a request of alice to handler, about to load her notes file
AliceAt(request, handler) ==
    /\ Staged(request, handler, "validated")
    /\ inflight[request].username = "alice"
    /\ user_notes_file("alice") \notin unreadable

C18_NotesScenario ==
    [][ /\ FreshNotesService
            => \A salt \in Salts, request \in Requests :
                   notes_register_user_load(request, AliceRequest, salt)
                       => /\ request \in DOMAIN inflight'
                          /\ inflight'[request].username = "alice"
        /\ ( /\ service = "notes"
             /\ Dumped
             /\ inflight[Dumping].handler = "register_notes_file"
             /\ inflight[Dumping].username = "alice" )
            => resp'.status = HTTP_200 /\ resp'.caller = "alice"
        /\ ( /\ service = "notes"
             /\ USERS_FILE \notin unreadable
             /\ notes_login("alice", Plain("secret123")) )
            => /\ resp'.status = HTTP_200
               /\ resp'.detail = "bearer"
               /\ resp'.token.sub = "alice"
        /\ service = "notes"
            => \A request \in Requests :
               /\ ( /\ AliceAt(request, "add_note")
                    /\ NotesOf(user_notes_file("alice")) = <<>>
                    /\ add_note_load(request, SampleNote) )
                   => /\ request \in DOMAIN inflight'
                      /\ inflight'[request].created.id = 1
               /\ ( /\ AliceAt(request, "get_my_notes")
                    /\ Len(NotesOf(user_notes_file("alice"))) = 1
                    /\ NotesOf(user_notes_file("alice"))[1].title = "Shopping List"
                    /\ get_my_notes(request) )
                   => /\ Len(resp'.body) = 1
                      /\ resp'.body[1].id = 1
                      /\ resp'.body[1].title = "Shopping List"
                      /\ resp'.body[1].date_created = resp'.body[1].date_updated
        /\ ( /\ service = "notes"
             /\ Served /\ Dumped
             /\ inflight[Dumping].handler = "add_note"
             /\ inflight[Dumping].username = "alice"
             /\ NotesOf(user_notes_file("alice")) = <<>> )
            => resp'.status = HTTP_200 /\ resp'.body[1].id = 1
      ]_vars

(***************************************************************************)
(* C19: whenever the JSON file a handler needs is unreadable or corrupt,   *)
(* the handler answers with a 500-class error, returns no data, and does   *)
(* not overwrite the store: no file is written and the file stays as it    *)
(* is.  A handler needs a file in the step in which it loads it.           *)
(***************************************************************************)
\* the file the handler of a request in flight loads in its next step
\* (<<>>: none)
NextLoad(held) ==
    CASE held.stage = "cart_loaded" -> PRODUCTS_FILE
      [] held.stage = "validated" /\ held.handler = "add_product" -> PRODUCTS_FILE
      [] held.stage = "validated" /\ held.handler \in {"add_to_cart", "view_cart"}
             -> CART_FILE
      [] /\ held.stage = "validated"
         /\ held.handler \in {"add_job_application", "get_my_applications"}
             -> APPLICATIONS_FILE
      [] held.stage = "validated" /\ held.handler \in {"add_note", "get_my_notes"}
             -> user_notes_file(held.username)
      [] held.stage = "validated" /\ held.handler = "get_grades" -> STUDENTS_FILE
      [] OTHER -> <<>>

\* the step is the arrival of a request of the student portal whose body
\* StudentIn accepts: register, login and authenticate load students.json
\* when the request arrives
PortalArrival ==
    /\ service = "portal"
    /\ \E request \in Requests, student \in StudentInputs :
           \/ \E salt \in Salts : register(request, student, salt)
           \/ login(request, student)
           \/ authenticate(request, student)

\* a step in which a handler loads a file that cannot be parsed
LoadsUnreadable ==
    \/ \E request \in DOMAIN inflight :
           /\ NextLoad(inflight[request]) # <<>>
           /\ NextLoad(inflight[request]) \in unreadable
           /\ request \in DOMAIN inflight'
                  => inflight'[request].stage # inflight[request].stage
    \/ PRODUCTS_FILE \in unreadable /\ get_products
    \/ STUDENTS_FILE \in unreadable /\ PortalArrival

C19_StorageErrorsAre500 ==
    [][ LoadsUnreadable =>
            /\ resp'.status >= HTTP_500
            /\ resp'.body = <<>>
            /\ unreadable' = unreadable
            /\ UNCHANGED Files ]_vars

(***************************************************************************)
(* C20, as stated: two add requests on the same file that both load before *)
(* either writes both report success with the same id, and the file ends   *)
(* up with the record of the last writer only, the first writer's record   *)
(* being absent.                                                           *)
(***************************************************************************)
\* the list of username in the content of a record file
ListIn(content, username) ==
    IF service = "jobs" THEN GetOrEmpty(content, username) ELSE content

\* the content of a record file
Stored(file) == IF service = "jobs" THEN applications_json ELSE NotesOf(file)

\* the request second closes its file in this step, after the write first:
\* both are requests of one handler that had loaded the same content of the
\* same file before either wrote
Raced(first, second) ==
    /\ second \in DOMAIN inflight
    /\ second \notin DOMAIN inflight'
    /\ first.handler = inflight[second].handler
    /\ first.file = inflight[second].file
    /\ first.loaded = inflight[second].loaded

\* the second writer is answered 200, and the file holds what it loaded plus
\* its record, the record of the first writer being absent from the list of
\* its owner
LostUpdate(first, second) ==
    \E two \in {inflight[second]} :
        /\ resp'.status = HTTP_200
        /\ resp'.body = <<two.created>>
        /\ two.file \notin unreadable'
        /\ ListIn(Stored(two.file)', two.username) =
               Append(ListIn(two.loaded, two.username), two.created)
        /\ first.created # two.created
               => first.created \notin Range(ListIn(Stored(two.file)', first.username))

\* every add request that writes is answered 200 with the record it made
EveryWriterSucceeds ==
    Dumped => /\ resp'.status = HTTP_200
              /\ resp'.caller = inflight[Dumping].username
              /\ resp'.body = <<inflight[Dumping].created>>

C20_LostUpdateSameId ==
    [][ /\ EveryWriterSucceeds
        /\ \A second \in DOMAIN inflight :
               \A i \in 1..Len(inflight[second].passed) :
                   \A first \in {inflight[second].passed[i]} :
                       Raced(first, second) =>
                           /\ LostUpdate(first, second)
                           /\ first.created.id = inflight[second].created.id
      ]_vars

(***************************************************************************)
(* C20, amended: two add requests on the same file that both load before   *)
(* either writes both report success, with the same id when both are       *)
(* requests of the same owner (in the job tracker two owners share the     *)
(* file, and their ids are their own counts plus one).  When the document  *)
(* of the last writer is at least as long as what the file holds at its    *)
(* close, the file ends up with that document: what the request loaded and *)
(* its record, the first writer's record being absent.  When it is shorter *)
(* (both had the file open, and the first wrote more bytes) the tail of    *)
(* the first writer's bytes stays behind it and the file cannot be parsed. *)
(***************************************************************************)
\* the close of the file by the last writer leaves bytes of the first
\* behind its document
TornBy(two) == DocBytes(two.file, two.data) < BytesOnDisk(two.file)

LostOrTorn(first, second) ==
    \E two \in {inflight[second]} :
        /\ resp'.status = HTTP_200
        /\ resp'.body = <<two.created>>
        /\ IF TornBy(two)
           THEN /\ two.file \in unreadable'
                /\ two.file \in DOMAIN torn'
                /\ torn'[two.file] = BytesOnDisk(two.file)
           ELSE /\ two.file \notin unreadable'
                /\ ListIn(Stored(two.file)', two.username) =
                       Append(ListIn(two.loaded, two.username), two.created)
                /\ first.created # two.created
                       => first.created
                              \notin Range(ListIn(Stored(two.file)', first.username))

C20_LostUpdate ==
    [][ /\ EveryWriterSucceeds
        /\ \A second \in DOMAIN inflight :
               \A i \in 1..Len(inflight[second].passed) :
                   \A first \in {inflight[second].passed[i]} :
                       Raced(first, second) =>
                           /\ LostOrTorn(first, second)
                           /\ first.username = inflight[second].username
                                  => first.created.id = inflight[second].created.id
      ]_vars

\* the last writer was answered with the id the first writer, a request of
\* the same owner, was answered with, and the first writer's record is gone
C20_Witness ==
    /\ resp.op \in AddOps
    /\ resp.status = HTTP_200
    /\ \E i \in 1..Len(overwritten) :
         LET first == overwritten[i]
         IN
           /\ first.handler \in AddOps
           /\ first.username = resp.caller
           /\ first.sent # resp.sent[1]
           /\ first.created.id = resp.body[1].id
           /\ first.file \notin unreadable
           /\ first.created
                  \notin Range(ListIn(Stored(first.file), first.username))
           /\ resp.body[1] \in Range(ListIn(Stored(first.file), resp.caller))

(***************************************************************************)
(* C21, as stated: once a user record exists, its password hash is the     *)
(* same in every later state: no step changes the hash stored under a      *)
(* username or removes the username from the store.                        *)
(***************************************************************************)
\* every hash the credential store holds under username
HashesOf(username) ==
    IF service = "portal" THEN {students_json[username].password_hash}
    ELSE {UsersFile[i].hashed_password :
              i \in {k \in 1..Len(UsersFile) : UsersFile[k].username = username}}

\* the step keeps every hash in the store
HashesKept ==
    \A username \in KnownNames :
        /\ username \in KnownNames'
        /\ HashesOf(username)' = HashesOf(username)

C21_HashNeverChanges ==
    [][ <<students_json, UsersFile>>' # <<students_json, UsersFile>>
            => HashesKept ]_vars

(***************************************************************************)
(* C21, amended: once a user record exists, no register, login, token      *)
(* validation or resource request handled to completion before another     *)
(* request writes the credential file changes its password hash, a refused *)
(* registration of the same username included.  A request that closes the  *)
(* credential file after another request wrote it since its own load       *)
(* (a registration that raced another, and in the student portal           *)
(* read_json's write of the default to the students.json it found missing) *)
(* replaces what the other wrote: records stored in between are lost, as   *)
(* C27 states for two registrations of one username.  Every close of the   *)
(* credential file leaves in it the document of the request that closes    *)
(* it, or, when that document is shorter than what the file holds by then, *)
(* bytes that cannot be parsed.                                            *)
(***************************************************************************)
\* the files that hold the credentials
CredentialFiles == {STUDENTS_FILE, USERS_FILE}

\* the close of a credential file leaves the document of the writer in it
WriterReplaces ==
    \A request \in DOMAIN inflight :
        (Flushes(request) /\ inflight[request].file \in CredentialFiles)
        => \E held \in {inflight[request]} :
               IF TornBy(held)
               THEN held.file \in unreadable' /\ held.file \in DOMAIN torn'
               ELSE /\ held.file \notin unreadable'
                    /\ IF service = "portal" THEN students_json' = held.data
                       ELSE UsersFile' = held.data

C21_HashImmutable ==
    /\ [][ (<<students_json, UsersFile>>' # <<students_json, UsersFile>> /\ ~Stale)
               => HashesKept ]_vars
    /\ [][WriterReplaces]_vars

\* a registration of a stored username was refused after users registered
C21_Witness ==
    /\ resp.op = "register"
    /\ resp.status \in {HTTP_400, HTTP_409}
    /\ resp.detail \in {"Username already registered", "Username already exists"}
    /\ DOMAIN registered # {}
    /\ DOMAIN registered \subseteq KnownNames
    /\ \A username \in DOMAIN registered :
           HashesOf(username) =
               {get_password_hash(registered[username], salt) : salt \in Salts}
                   \cap HashesOf(username)

(***************************************************************************)
(* C22: a successful update_note(id, title, content) sets title and        *)
(* content of the owner's note with that id - the note get_note(id)        *)
(* returns, the first in the file that carries the id - and its            *)
(* date_updated to the time the handler read the clock, not before         *)
(* date_created and not after the answer, and leaves the id and            *)
(* date_created of that note, the order of the collection and every other  *)
(* note as they were.                                                      *)
(***************************************************************************)
\* a strftime("%Y-%m-%d %H:%M:%S") value is not later than another
DateLeq(a, b) == a[1] < b[1] \/ (a[1] = b[1] /\ a[2] <= b[2])

\* the step is a PUT /notes/{note_id} answered with 200
UpdatedNote ==
    Served /\ Dumped /\ resp'.op = "update_note" /\ resp'.status = HTTP_200

\* the handler changes, in the list it loaded, the note it addresses: the
\* date is the time of this step
C22_ChangesTheNote ==
    \A request \in Requests, note_id \in RecordIds, note \in NoteInputs :
        (update_note_load(request, note_id, note) /\ request \in DOMAIN inflight')
        => LET before == NotesOf(user_notes_file(inflight[request].username))
               i == find_note(before, note_id)
           IN  /\ i > 0
               /\ inflight'[request].created =
                      [before[i] EXCEPT !.title = note.title,
                                        !.content = note.content,
                                        !.date_updated = FormatDateTime(clock)]
               /\ inflight'[request].data =
                      [before EXCEPT ![i] = inflight'[request].created]

\* the file after the update is the file before it with that note changed
C22_WritesTheNote ==
    UpdatedNote =>
        LET file == user_notes_file(resp'.caller)
            before == NotesOf(file)
            after == GetOrEmpty(notes_data', file)
            sent == resp'.sent[1]
            i == find_note(before, resp'.id)
        IN  /\ i > 0
            /\ Len(after) = Len(before)
            /\ after[i] = resp'.body[1]
            /\ after[i] = [before[i] EXCEPT
                               !.title = sent.title,
                               !.content = sent.content,
                               !.date_updated = resp'.body[1].date_updated]
            /\ DateLeq(after[i].date_created, after[i].date_updated)
            /\ DateLeq(before[i].date_updated, after[i].date_updated)
            /\ DateLeq(after[i].date_updated, FormatDateTime(clock))
            /\ \A k \in 1..Len(before) : k # i => after[k] = before[k]

C22_UpdateSetsTheNote ==
    /\ [][C22_ChangesTheNote]_vars
    /\ [][C22_WritesTheNote]_vars

\* an update of the first of two notes was answered after time had passed:
\* its title is the submitted one, its date_updated is later than its
\* date_created, and the other note is as it was added
C22_Witness ==
    /\ resp.op = "update_note"
    /\ resp.status = HTTP_200
    /\ resp.body[1].date_updated # resp.body[1].date_created
    /\ resp.body[1].title = "Meeting Notes"
    /\ LET stored == NotesOf(user_notes_file(resp.caller))
       IN  /\ Len(stored) = 2
           /\ stored[1] = resp.body[1]
           /\ stored[2].title = "Shopping List"
           /\ stored[2].date_updated = stored[2].date_created

(***************************************************************************)
(* C23: list_for_owner returns the owner's records in the order in which   *)
(* the surviving records were added (add appends at the end, update and    *)
(* delete keep the relative order, each handled to completion before       *)
(* another request writes its file), and an empty sequence with 200 for an *)
(* authenticated owner without records.                                    *)
(***************************************************************************)
\* one record more than the requests of a behaviour add
MaxListed == MaxRecords + 1

\* s is t with some elements left out
RECURSIVE IsSubSeq(_, _)
IsSubSeq(s, t) ==
    IF s = <<>> THEN TRUE
    ELSE IF t = <<>> THEN FALSE
    ELSE IF Head(s) = Head(t) THEN IsSubSeq(Tail(s), Tail(t))
    ELSE IsSubSeq(s, Tail(t))

\* the lists of up to MaxListed notes a file can hold, told apart by title
ListedNote(id, title) ==
    [id |-> id, title |-> title, content |-> SampleNote.content,
     date_created |-> FormatDateTime(0), date_updated |-> FormatDateTime(0)]
ListedNotes == {ListedNote(id, title) : id \in 1..MaxListed, title \in {"a", "b"}}
NoteLists ==
    UNION {[1..n -> ListedNotes] : n \in 0..MaxListed}

\* the filter of delete_note keeps the notes it keeps in their order
DeleteKeepsOrder ==
    \A notes_list \in NoteLists, note_id \in 1..MaxListed :
        LET kept == remove_note(notes_list, note_id)
        IN  /\ IsSubSeq(kept, notes_list)
            /\ \A k \in 1..Len(notes_list) :
                   notes_list[k].id # note_id => notes_list[k] \in Range(kept)
            /\ Len(kept) = Cardinality({k \in 1..Len(notes_list) :
                                           notes_list[k].id # note_id})

\* a step changes a collection by an append at its end, by a change in
\* place, or by leaving records out
OrderKept(owner) ==
    LET before == Collection(owner)
        after == CollectionAfter(owner)
    IN  IF /\ resp'.op \in AddOps
           /\ resp'.status = HTTP_200
           /\ resp'.caller = owner
           /\ after # before
        THEN after = Append(before, resp'.body[1])
        ELSE IF Len(after) = Len(before)
        THEN \A k \in 1..Len(before) : after[k].id = before[k].id
        ELSE /\ resp'.op = "delete_note"
             /\ after = remove_note(before, resp'.id)
             /\ IsSubSeq(after, before)

\* a list request of an authenticated owner is answered 200 with the stored
\* sequence, which is empty for an owner without records
ListIsTheCollection ==
    /\ (Completes /\ resp'.op \in ListOps /\ resp'.caller # NoCaller)
           => /\ resp'.status = HTTP_200
              /\ resp'.body = Collection(resp'.caller)
    /\ \A request \in DOMAIN inflight :
           (get_my_notes(request) \/ get_my_applications(request))
           => /\ resp'.status = HTTP_200
              /\ resp'.caller = inflight[request].username
              /\ Collection(resp'.caller) = <<>> => resp'.body = <<>>

C23_ListInInsertionOrder ==
    /\ DeleteKeepsOrder
    /\ [][ (service = "notes" \/ service = "jobs") =>
               /\ ListIsTheCollection
               /\ ~Stale => \A owner \in Owners : OrderKept(owner)
         ]_vars

(***************************************************************************)
(* C24: when requests of two owners of the job tracker interleave their    *)
(* reads and writes of applications.json, the write of one owner's request *)
(* leaves the applications of every other owner as they were, so that      *)
(* every record another owner's successful request added is still stored.  *)
(***************************************************************************)
\* request writes applications.json in this step
Dumps(request) == Flushes(request)

C24_IsolationUnderInterleaving ==
    [][ \A request \in DOMAIN inflight :
            Dumps(request) =>
                \A owner \in Owners \ {inflight[request].username} :
                    GetOrEmpty(applications_json', owner) = ApplicationsOf(owner)
      ]_vars

(***************************************************************************)
(* C25: a successful delete_note(id) removes exactly one note of the       *)
(* caller, the one get_note(id) and update_note(id) address, and leaves    *)
(* every other note of the caller as it was and in the same order.         *)
(***************************************************************************)
\* the list without its element at index i
WithoutIndex(records, i) ==
    SubSeq(records, 1, i - 1) \o SubSeq(records, i + 1, Len(records))

C25_DeleteRemovesOneNote ==
    [][ (Served /\ Dumped /\ resp'.op = "delete_note" /\ resp'.status = HTTP_200)
            => LET file == user_notes_file(resp'.caller)
                   before == NotesOf(file)
                   after == GetOrEmpty(notes_data', file)
                   i == find_note(before, resp'.id)
               IN  /\ i > 0
                   /\ Len(after) = Len(before) - 1
                   /\ after = WithoutIndex(before, i) ]_vars

(***************************************************************************)
(* C26: with requests served one after the other, every owner's n          *)
(* applications carry the ids 1..n in insertion order, and so do the n     *)
(* products of the shopping cart; ids are unique in each such collection.  *)
(***************************************************************************)
\* the record at position k carries the id k
IdsAreIndexes(records) == \A k \in 1..Len(records) : records[k].id = k

C26_SequentialIds ==
    /\ service = "jobs" =>
           \A username \in DOMAIN applications_json :
               /\ IdsAreIndexes(applications_json[username])
               /\ Cardinality(Ids(applications_json[username]))
                      = Len(applications_json[username])
    /\ service = "cart" =>
           /\ IdsAreIndexes(products_json)
           /\ Cardinality(Ids(products_json)) = Len(products_json)

\* an owner with two applications has changed the status of one
C26_Witness ==
    /\ service = "jobs"
    /\ resp.op = "update_application_status"
    /\ resp.status = HTTP_200
    /\ APPLICATIONS_FILE \notin unreadable
    /\ Len(ApplicationsOf(resp.caller)) = 2
    /\ Ids(ApplicationsOf(resp.caller)) = {1, 2}

(***************************************************************************)
(* C27, as stated: however register requests interleave, no persisted user *)
(* list holds two records with the same username; two concurrent           *)
(* registrations of one username that both pass the duplicate check both   *)
(* report success, and the store then holds the record and password of the *)
(* last writer only.                                                       *)
(***************************************************************************)
\* the records the credential store holds under username
RecordsOf(username) ==
    IF service = "portal"
    THEN IF username \in DOMAIN students_json THEN {students_json[username]} ELSE {}
    ELSE {UsersFile[k] : k \in {i \in 1..Len(UsersFile) :
                                     UsersFile[i].username = username}}

\* no persisted user list holds two records with one username
UsernamesUnique ==
    \A i, j \in 1..Len(UsersFile) :
        UsersFile[i].username = UsersFile[j].username => i = j

\* the register request second writes the credential store in this step
WritesStore(second) ==
    /\ Flushes(second)
    /\ inflight[second].handler = "register"
    /\ inflight[second].stage = "open"

\* second writes the credential store in this step, which it loaded before
\* the write first, a registration of the same username, was made
RacedRegister(first, second) ==
    /\ WritesStore(second)
    /\ first.handler = "register"
    /\ first.file = inflight[second].file
    /\ first.username = inflight[second].username

\* every register request that passed the duplicate check and wrote is
\* answered with success
EveryRegistrationSucceeds ==
    (Dumped /\ inflight[Dumping].handler \in {"register", "register_notes_file"})
        => /\ resp'.op = "register"
           /\ resp'.status \in {HTTP_200, HTTP_201}
           /\ resp'.caller = inflight[Dumping].username

\* after the step the store holds the record of the writer two under its
\* username, and of the passwords of two and of first only that of two logs
\* in
LastWriterOnly(first, two) ==
    /\ RecordsOf(two.username)' = {two.created}
    /\ LoginResponse(two.username, two.sent.password)'.status = HTTP_200
    /\ first.sent.password # two.sent.password
           => LoginResponse(first.username, first.sent.password)'.status
                  = HTTP_401

C27_LastWriterHolds ==
    /\ []UsernamesUnique
    /\ [][ /\ EveryRegistrationSucceeds
           /\ \A second \in DOMAIN inflight :
                  \A i \in 1..Len(inflight[second].passed) :
                    \A first \in {inflight[second].passed[i]},
                       two \in {inflight[second]} :
                      RacedRegister(first, second) => LastWriterOnly(first, two)
       ]_vars

(***************************************************************************)
(* C27, amended: however register requests interleave, no persisted user   *)
(* list holds two records with the same username; two concurrent           *)
(* registrations of one username that both pass the duplicate check both   *)
(* report success, and the store then holds the record and password of the *)
(* last writer only - unless the document of the last writer is shorter    *)
(* than what the file holds when it closes it (in the student portal a     *)
(* registration of another username can be written while the last writer   *)
(* has students.json open): then the rest of the longer document stays     *)
(* behind it, the file cannot be parsed, and a login is answered 500.      *)
(***************************************************************************)
C27_UniqueUnderInterleaving ==
    /\ []UsernamesUnique
    /\ [][ /\ EveryRegistrationSucceeds
           /\ \A second \in DOMAIN inflight :
                  \A i \in 1..Len(inflight[second].passed) :
                    \A first \in {inflight[second].passed[i]},
                       two \in {inflight[second]} :
                      RacedRegister(first, second) =>
                          IF TornBy(two)
                          THEN /\ two.file \in unreadable'
                               /\ two.file \in DOMAIN torn'
                               /\ RecordsOf(two.username)' = {}
                               /\ LoginResponse(two.username,
                                                two.sent.password)'.status
                                      = HTTP_500
                          ELSE LastWriterOnly(first, two)
       ]_vars

\* two registrations of one username with different passwords have both
\* returned, the last of them with success after it replaced the write of
\* the other, and the store holds the last writer's record only
C27_Witness ==
    /\ inflight = EmptyDict
    /\ resp.op = "register"
    /\ resp.status \in {HTTP_200, HTTP_201}
    /\ resp.caller \in DOMAIN registered
    /\ \E i \in 1..Len(overwritten) :
         LET first == overwritten[i]
         IN
           /\ first.handler = "register"
           /\ first.username = resp.caller
           /\ first.sent.password # registered[resp.caller]
           /\ first.created \notin RecordsOf(resp.caller)
           /\ Cardinality(RecordsOf(resp.caller)) = 1
           /\ LoginResponse(resp.caller, registered[resp.caller]).status = HTTP_200
           /\ LoginResponse(resp.caller, first.sent.password).status = HTTP_401

(***************************************************************************)
(* C28: no handler of the shopping cart writes the user store, so users    *)
(* and roles stay what initialize_files wrote, and whatever a user who is  *)
(* not an admin does, a product is added, and add_product answers 200,     *)
(* only for a caller whose role is admin.                                  *)
(***************************************************************************)
\* the usernames of the user store whose role is admin
Admins ==
    {cart_users_json[k].username :
         k \in {i \in 1..Len(cart_users_json) : cart_users_json[i].role = "admin"}}

C28_RolesNeverChange ==
    /\ [](service = "cart" => cart_users_json = CartDefaultUsers)
    /\ [][ (service = "cart")
               => /\ cart_users_json' = cart_users_json
                  /\ Admins' = Admins
                  /\ (products_json' # products_json
                         \/ (resp'.op = "add_product" /\ resp'.status = HTTP_200))
                         => /\ resp'.op = "add_product"
                            /\ resp'.caller \in Admins ]_vars

\* a customer who has logged in and filled a cart is refused by add_product
C28_Witness ==
    /\ service = "cart"
    /\ resp.op = "add_product"
    /\ resp.status = HTTP_403
    /\ resp.caller \in Usernames(cart_users_json) \ Admins
    /\ CartOf(resp.caller) # <<>>
    /\ products_json # <<>>

(***************************************************************************)
(* C29: a successful update_application_status(id, s) changes only the     *)
(* status of the first application of the caller whose id is id: the other *)
(* fields of that record, every other application of the caller, the       *)
(* length and order of the collection and every other owner's collection   *)
(* stay as they were.                                                      *)
(***************************************************************************)
C29_OnlyTheStatusChanges ==
    [][ ( /\ Served /\ Dumped
          /\ resp'.op = "update_application_status"
          /\ resp'.status = HTTP_200 )
            => LET before == ApplicationsOf(resp'.caller)
                   after == GetOrEmpty(applications_json', resp'.caller)
                   i == FirstOf({k \in 1..Len(before) : before[k].id = resp'.id})
               IN  /\ DOMAIN applications_json' = DOMAIN applications_json
                   /\ \A owner \in DOMAIN applications_json \ {resp'.caller} :
                          applications_json'[owner] = applications_json[owner]
                   /\ i > 0
                   /\ Len(after) = Len(before)
                   /\ \A k \in 1..Len(before) :
                          k # i => after[k] = before[k]
                   /\ after[i].status = resp'.detail
                   /\ after[i].id = before[i].id
                   /\ after[i].job_title = before[i].job_title
                   /\ after[i].company = before[i].company
                   /\ after[i].date_applied = before[i].date_applied
                   /\ after[i].notes = before[i].notes ]_vars

\* the status of one of the caller's two applications was changed, with
\* another owner's applications in the store
C29_Witness ==
    /\ resp.op = "update_application_status"
    /\ resp.status = HTTP_200
    /\ APPLICATIONS_FILE \notin unreadable
    /\ \E k \in 1..Len(ApplicationsOf(resp.caller)) :
           /\ ApplicationsOf(resp.caller)[k].id = resp.id
           /\ ApplicationsOf(resp.caller)[k].status = resp.detail
           /\ resp.detail \notin {application.status :
                                     application \in ApplicationInputs}
    /\ Count(applications_json) = 2
====
